---- MODULE Spec2Model ----
(***************************************************************************)
(* Model of the stock analyzer's indicator pipeline                        *)
(* (src/src/app/api/stock/[symbol]/route.ts).                               *)
(*                                                                         *)
(* JavaScript numbers are modelled as exact rationals <<n, d>> with d > 0  *)
(* in lowest terms; the non-numbers null, undefined and NaN are the pairs  *)
(* with d = 0.  Series are 1-based sequences: index i of the code is       *)
(* position i + 1 here.                                                    *)
(***************************************************************************)
EXTENDS Integers, Sequences, FiniteSets, Bags, TLC

\* the call of the stock route: the function run, its arguments, its result
\* and the local variables it ended with
VARIABLES fn, args, ret, locals

\* the dashboard: its state variables by their names in the component, the
\* stored watchlist, the fetches that were started and have not settled, the
\* toast shown last, how the stock fetch settled that settled last, the
\* watchlist seen by the registered keydown handler, and the ticks since the
\* countdown was last set to its start value
VARIABLES mounted, selectedStock, stockData, compareData, compareStock, compareMode,
          loading, refreshCountdown, watchlist, storage, pending, lastToast,
          lastFetch, keyDownWatchlist, sinceReset

routeVars == <<fn, args, ret, locals>>

dashVars == <<mounted, selectedStock, stockData, compareData, compareStock, compareMode,
              loading, refreshCountdown, watchlist, storage, pending, lastToast,
              lastFetch, keyDownWatchlist, sinceReset>>

vars == <<routeVars, dashVars>>

(***************************************************************************)
(* Bounds of the model.                                                    *)
(***************************************************************************)
MaxPrice == 2
MaxLen == 5
MaxPeriod == 5
MaxStdDev == 2
MaxFlat == 50
MaxTail == 1
SqrtScale == 100
Precision == 5
MaxTenths == 5
MaxHead == 1
MaxLevel == 3
MaxBars == 6
MaxPivots == 4
MaxThin == 3
MaxPending == 2

(***************************************************************************)
(* Numbers.                                                                *)
(***************************************************************************)
Null == <<0, 0>>
Undefined == <<1, 0>>
NaN == <<2, 0>>
PosInfinity == <<3, 0>>
NegInfinity == <<4, 0>>

IsNum(x) == x[2] > 0

Abs(n) == IF n < 0 THEN -n ELSE n

RECURSIVE GCD(_, _)
GCD(a, b) == IF b = 0 THEN a ELSE GCD(b, a % b)

Norm(n, d) ==
  LET g == GCD(Abs(n), d)
  IN  <<n \div g, d \div g>>

Num(k) == <<k, 1>>

LCM(a, b) == (a \div GCD(a, b)) * b

Add(x, y) ==
  IF x[2] = y[2] THEN Norm(x[1] + y[1], x[2])
  ELSE LET l == LCM(x[2], y[2])
       IN  Norm(x[1] * (l \div x[2]) + y[1] * (l \div y[2]), l)

Neg(x) == <<-x[1], x[2]>>

Sub(x, y) == Add(x, Neg(y))

Mul(x, y) ==
  IF x[2] = 1 /\ y[2] = 1 THEN <<x[1] * y[1], 1>>
  ELSE LET a == Norm(x[1], y[2])
           b == Norm(y[1], x[2])
       IN  <<a[1] * b[1], a[2] * b[2]>>

\* x / y for y # 0
Div(x, y) ==
  IF y[1] > 0 THEN Mul(x, <<y[2], y[1]>>)
  ELSE Mul(x, <<-y[2], -y[1]>>)

\* x - y where an operand may be undefined
Minus(x, y) == IF IsNum(x) /\ IsNum(y) THEN Sub(x, y) ELSE NaN

\* x + y, x * y and x / y where an operand may be NaN or the divisor 0
Plus(x, y) == IF IsNum(x) /\ IsNum(y) THEN Add(x, y) ELSE NaN

Times(x, y) == IF IsNum(x) /\ IsNum(y) THEN Mul(x, y) ELSE NaN

Over(x, y) ==
  IF ~IsNum(x) \/ ~IsNum(y) THEN NaN
  ELSE IF y[1] # 0 THEN Div(x, y)
  ELSE IF x[1] = 0 THEN NaN
  ELSE IF x[1] > 0 THEN PosInfinity ELSE NegInfinity

Sign(x) == IF x[1] > 0 THEN 1 ELSE IF x[1] < 0 THEN -1 ELSE 0

\* the comparison operators of the language: false when an operand is no number
Lt(x, y) == IsNum(x) /\ IsNum(y) /\ Sign(Sub(x, y)) < 0
Gt(x, y) == Lt(y, x)
Le(x, y) == IsNum(x) /\ IsNum(y) /\ Sign(Sub(x, y)) <= 0
Ge(x, y) == Le(y, x)

MathAbs(x) == <<Abs(x[1]), x[2]>>
\* Math.min and Math.max of two values: NaN when either is no number
MathMin(x, y) == IF ~IsNum(x) \/ ~IsNum(y) THEN NaN ELSE IF Lt(y, x) THEN y ELSE x
MathMax(x, y) == IF ~IsNum(x) \/ ~IsNum(y) THEN NaN ELSE IF Gt(y, x) THEN y ELSE x

\* Math.round: the nearest integer, halves rounded up
MathRound(x) == Num((2 * x[1] + x[2]) \div (2 * x[2]))

RECURSIVE ISqrtIn(_, _, _)
ISqrtIn(lo, hi, m) ==
  IF lo >= hi THEN lo
  ELSE LET mid == (lo + hi + 1) \div 2
       IN  IF mid * mid <= m THEN ISqrtIn(mid, hi, m) ELSE ISqrtIn(lo, mid - 1, m)

\* Math.sqrt of x >= 0, rounded down to a multiple of 1/SqrtScale
MathSqrt(x) ==
  LET m == (x[1] * SqrtScale * SqrtScale) \div x[2]
  IN  Norm(ISqrtIn(0, 46340, m), SqrtScale)

\* a is falsy: null, undefined, NaN or 0
Falsy(a) == ~IsNum(a) \/ a[1] = 0

\* a || b
OrElse(a, b) == IF Falsy(a) THEN b ELSE a

\* s[i] with the index of the code: undefined outside the array
At(s, i) == IF i + 1 \in 1..Len(s) THEN s[i + 1] ELSE Undefined

\* the array a loop builds by pushing push(k) at its k-th pass, k = 1 .. n
Pushed(n, push(_)) == [k \in 1..n |-> push(k)] \o <<>>

RECURSIVE SumFrom(_, _, _)
\* data.slice(lo-1, hi).reduce((a, b) => a + b, 0); the sum is exact, so the
\* order of the additions does not matter and the range is halved
SumFrom(data, lo, hi) ==
  IF lo > hi THEN Num(0)
  ELSE IF lo = hi THEN data[lo]
  ELSE LET mid == (lo + hi) \div 2
       IN  Add(SumFrom(data, lo, mid), SumFrom(data, mid + 1, hi))

(***************************************************************************)
(* Moving averages.                                                        *)
(***************************************************************************)
\* faulty variant: the warm-up entries are not pushed at all
calculateSMA_NoWarmup(data, period) ==
  SelectSeq(Pushed(Len(data),
                   LAMBDA k : IF k - 1 < period - 1 THEN Null
                              ELSE Div(SumFrom(data, k - period + 1, k), Num(period))),
            LAMBDA v : v # Null)

\* faulty variant: during warm-up the mean of the bars seen so far is pushed
calculateSMA_Partial(data, period) ==
  Pushed(Len(data),
         LAMBDA k : IF k - 1 < period - 1 THEN Div(SumFrom(data, 1, k), Num(k))
                    ELSE Div(SumFrom(data, k - period + 1, k), Num(period)))

\* faulty variant: the window starts one entry too early
calculateSMA_LongWindow(data, period) ==
  Pushed(Len(data),
         LAMBDA k : IF k - 1 < period - 1 THEN Null
                    ELSE Div(SumFrom(data, IF k > period THEN k - period ELSE 1, k),
                             Num(period)))

calculateSMA(data, period) ==
  Pushed(Len(data),
         LAMBDA k : IF k - 1 < period - 1 THEN Null
                    ELSE Div(SumFrom(data, k - period + 1, k), Num(period)))

\* faulty variant: the smoothing factor is 2 / period
EMAPass_Smoothing(result, data, period) ==
  LET i == Len(result)
      multiplier == Div(Num(2), Num(period))
  IN  IF i < period - 1 THEN Append(result, Null)
      ELSE IF i = period - 1
        THEN Append(result, Div(SumFrom(data, 1, period), Num(period)))
      ELSE LET prevEma == result[i]
           IN  Append(result, Add(Mul(Sub(data[i + 1], prevEma), multiplier), prevEma))

\* one pass of the loop of calculateEMA, at index i = result.length
EMAPass(result, data, period) ==
  LET i == Len(result)
      multiplier == Div(Num(2), Num(period + 1))
  IN  IF i < period - 1 THEN Append(result, Null)
      ELSE IF i = period - 1
        THEN Append(result, Div(SumFrom(data, 1, period), Num(period)))
      ELSE LET prevEma == result[i]
           IN  Append(result, Add(Mul(Sub(data[i + 1], prevEma), multiplier), prevEma))

RECURSIVE EMAPasses(_, _, _, _)
\* the result array once the loop has made its passes up to the hi-th, starting
\* from `result`; the first half of the passes is completed before the second
EMAPasses(result, data, period, hi) ==
  LET lo == Len(result) + 1
  IN  IF lo > hi THEN result
      ELSE IF lo = hi THEN EMAPass(result, data, period)
      ELSE EMAPasses(EMAPasses(result, data, period, (lo + hi) \div 2), data, period, hi)

calculateEMA(data, period) == EMAPasses(<<>>, data, period, Len(data))

(***************************************************************************)
(* RSI.  The function first fills a local array `result` with a            *)
(* recurrence-based attempt (lines 36-66) that is never read again; the    *)
(* array it returns, rsiResult, is computed by the loop below.             *)
(***************************************************************************)
\* the close-to-close change added at pass j of the inner loop (none at j = 0)
Change(closes, j) == IF j > 0 THEN Sub(closes[j + 1], closes[j]) ELSE Num(0)

Gain(closes, j) ==
  LET change == Change(closes, j)
  IN  IF Sign(change) > 0 THEN change ELSE Num(0)

Loss(closes, j) ==
  LET change == Change(closes, j)
  IN  IF Sign(change) > 0 THEN Num(0) ELSE MathAbs(change)

\* avgGain and avgLoss after the inner loop has run j = lo .. hi
GainSum(closes, lo, hi) == SumFrom([j \in lo..hi |-> Gain(closes, j)], lo, hi)

LossSum(closes, lo, hi) == SumFrom([j \in lo..hi |-> Loss(closes, j)], lo, hi)

\* faulty variant: no guard for avgLoss === 0; the division yields Infinity, or NaN for 0 / 0
RSIValue_NoGuard(avgGain, avgLoss) ==
  IF avgLoss = Num(0) THEN (IF avgGain = Num(0) THEN NaN ELSE Num(100))
  ELSE LET rs == Div(avgGain, avgLoss)
       IN  Sub(Num(100), Div(Num(100), Add(Num(1), rs)))

RSIValue(avgGain, avgLoss) ==
  IF avgLoss = Num(0) THEN Num(100)
  ELSE LET rs == Div(avgGain, avgLoss)
       IN  Sub(Num(100), Div(Num(100), Add(Num(1), rs)))

\* one pass of the first loop (lines 46-66), at index i = result.length; the
\* array it fills is never read after the loop
RecurrencePass(result, closes, period) ==
  LET i == Len(result)
  IN  IF i < period THEN Append(result, Null)
      ELSE IF i = period
        THEN LET avgGain == Div(GainSum(closes, 1, period), Num(period))
                 avgLoss == Div(LossSum(closes, 1, period), Num(period))
                 rs == IF avgLoss = Num(0) THEN Num(100) ELSE Div(avgGain, avgLoss)
             IN  Append(result, Sub(Num(100), Div(Num(100), Add(Num(1), rs))))
      ELSE LET prevRsi == result[i]
               prevAvgGain ==
                 IF prevRsi # Null
                 THEN IF Minus(Num(100), prevRsi) = Num(0) THEN Num(0)
                      ELSE Times(Over(prevRsi, Minus(Num(100), prevRsi)),
                                 Over(GainSum(closes, i - period + 1, i - 1),
                                      Num(period - 1)))
                 ELSE Num(0)
               currentGain == Gain(closes, i)
               currentLoss == Loss(closes, i)
               avgGain == Over(Plus(Times(prevAvgGain, Num(period - 1)), currentGain),
                               Num(period))
               avgLoss == Over(Plus(Times(IF prevAvgGain # Num(0) THEN prevAvgGain
                                          ELSE Num(1),
                                          Num(period - 1)),
                                    currentLoss),
                               Num(period))
               rs == IF avgLoss = Num(0) THEN Num(100) ELSE Over(avgGain, avgLoss)
           IN  Append(result, Minus(Num(100), Over(Num(100), Plus(Num(1), rs))))

RECURSIVE RecurrencePasses(_, _, _)
\* the array `result` after the first n passes of the first loop
RecurrencePasses(closes, period, n) ==
  IF n = 0 THEN <<>>
  ELSE RecurrencePass(RecurrencePasses(closes, period, n - 1), closes, period)

\* the local variables of calculateRSI when it returns
RSILocals(closes, period) ==
  [result |-> RecurrencePasses(closes, period, Len(closes))]

\* faulty variant: the array of the first loop is returned
calculateRSI_Recurrence(closes, period) ==
  RecurrencePasses(closes, period, Len(closes))

calculateRSI(closes, period) ==
  Pushed(Len(closes),
         LAMBDA k :
           LET i == k - 1
           IN  IF i < period THEN Null
               ELSE RSIValue(Div(GainSum(closes, i - period + 1, i), Num(period)),
                             Div(LossSum(closes, i - period + 1, i), Num(period))))

(***************************************************************************)
(* MACD.                                                                   *)
(***************************************************************************)
FastPeriod == 12
SlowPeriod == 26
SignalPeriod == 9

\* macd.filter(v => v !== null)
NotNull(s) == SelectSeq(s, LAMBDA v : v # Null)

MACDLine(ema12, ema26) ==
  Pushed(Len(ema12),
         LAMBDA k : IF ema12[k] = Null \/ ema26[k] = Null THEN Null
                    ELSE Sub(ema12[k], ema26[k]))

\* validIndex when the second loop reaches position k: the non-null entries before it
ValidIndex(macd, k) == Len(NotNull(SubSeq(macd, 1, k - 1)))

SignalLine(macd, signalEma) ==
  Pushed(Len(macd),
         LAMBDA k : IF macd[k] = Null THEN Null
                    ELSE OrElse(At(signalEma, ValidIndex(macd, k)), Null))

\* faulty variant: an absent signal counts as 0
Histogram_SignalAsZero(macd, signal) ==
  Pushed(Len(macd),
         LAMBDA k : IF macd[k] = Null THEN Null
                    ELSE Sub(macd[k], OrElse(signal[k], Num(0))))

Histogram(macd, signal) ==
  Pushed(Len(macd),
         LAMBDA k : IF macd[k] = Null \/ signal[k] = Null THEN Null
                    ELSE Sub(macd[k], signal[k]))

calculateMACD(closes) ==
  LET ema12 == calculateEMA(closes, FastPeriod)
      ema26 == calculateEMA(closes, SlowPeriod)
      macd == MACDLine(ema12, ema26)
      signalEma == calculateEMA(NotNull(macd), SignalPeriod)
      signal == SignalLine(macd, signalEma)
  IN  [macd |-> macd, signal |-> signal, histogram |-> Histogram(macd, signal)]

(***************************************************************************)
(* Bollinger bands.                                                        *)
(***************************************************************************)
\* slice.map(v => Math.pow(v - mean, 2)).reduce((a, b) => a + b, 0)
SquaredDiffSum(closes, mean, lo, hi) ==
  SumFrom([j \in lo..hi |-> LET diff == Sub(closes[j], mean) IN Mul(diff, diff)],
          lo, hi)

WindowStd(closes, mean, period, k) ==
  MathSqrt(Div(SquaredDiffSum(closes, mean, k - period + 1, k), Num(period)))

\* faulty variant: the two bands are exchanged
calculateBollingerBands_Swapped(closes, period, stdDev) ==
  LET middle == calculateSMA(closes, period)
      std == Pushed(Len(closes),
                    LAMBDA k : IF k - 1 < period - 1 THEN Null
                               ELSE WindowStd(closes, middle[k], period, k))
  IN  [upper |-> Pushed(Len(closes),
                        LAMBDA k : IF k - 1 < period - 1 THEN Null
                                   ELSE Sub(middle[k], Mul(stdDev, std[k]))),
       middle |-> middle,
       lower |-> Pushed(Len(closes),
                        LAMBDA k : IF k - 1 < period - 1 THEN Null
                                   ELSE Add(middle[k], Mul(stdDev, std[k])))]

calculateBollingerBands(closes, period, stdDev) ==
  LET middle == calculateSMA(closes, period)
      std == Pushed(Len(closes),
                    LAMBDA k : IF k - 1 < period - 1 THEN Null
                               ELSE WindowStd(closes, middle[k], period, k))
  IN  [upper |-> Pushed(Len(closes),
                        LAMBDA k : IF k - 1 < period - 1 THEN Null
                                   ELSE Add(middle[k], Mul(stdDev, std[k]))),
       middle |-> middle,
       lower |-> Pushed(Len(closes),
                        LAMBDA k : IF k - 1 < period - 1 THEN Null
                                   ELSE Sub(middle[k], Mul(stdDev, std[k])))]

(***************************************************************************)
(* Support and resistance levels.                                          *)
(***************************************************************************)
\* faulty variant: a low that ties with a neighbour still counts
IsLocalMin_OrEqual(lows, k) ==
  /\ Le(lows[k], lows[k - 1]) /\ Le(lows[k], lows[k - 2])
  /\ Le(lows[k], lows[k + 1]) /\ Le(lows[k], lows[k + 2])

IsLocalMin(lows, k) ==
  /\ Lt(lows[k], lows[k - 1]) /\ Lt(lows[k], lows[k - 2])
  /\ Lt(lows[k], lows[k + 1]) /\ Lt(lows[k], lows[k + 2])

IsLocalMax(highs, k) ==
  /\ Gt(highs[k], highs[k - 1]) /\ Gt(highs[k], highs[k - 2])
  /\ Gt(highs[k], highs[k + 1]) /\ Gt(highs[k], highs[k + 2])

RECURSIVE SupportIn(_, _, _)
\* what the pivot loop pushes to support at positions lo .. hi (indices lo - 1 ..
\* hi - 1), in order
SupportIn(lows, lo, hi) ==
  IF lo > hi THEN <<>>
  ELSE IF lo = hi THEN IF IsLocalMin(lows, lo) THEN <<lows[lo]>> ELSE <<>>
  ELSE LET mid == (lo + hi) \div 2
       IN  SupportIn(lows, lo, mid) \o SupportIn(lows, mid + 1, hi)

RECURSIVE ResistanceIn(_, _, _)
\* what the pivot loop pushes to resistance at positions lo .. hi; highs[i] is
\* read at the indices of lows, and compares false where highs has no entry
ResistanceIn(highs, lo, hi) ==
  IF lo > hi THEN <<>>
  ELSE IF lo = hi
    THEN LET h == [j \in (lo - 2)..(lo + 2) |-> At(highs, j - 1)]
         IN  IF IsLocalMax(h, lo) THEN <<h[lo]>> ELSE <<>>
  ELSE LET mid == (lo + hi) \div 2
       IN  ResistanceIn(highs, lo, mid) \o ResistanceIn(highs, mid + 1, hi)

\* faulty variant: s.slice(0, n)
LastN_Oldest(s, n) == IF Len(s) <= n THEN s ELSE SubSeq(s, 1, n)

\* s.slice(-n)
LastN(s, n) == IF Len(s) <= n THEN s ELSE SubSeq(s, Len(s) - n + 1, Len(s))

RECURSIVE InsertAsc(_, _)
InsertAsc(s, x) ==
  IF s = <<>> THEN <<x>>
  ELSE IF Lt(x, Head(s)) THEN <<x>> \o s
  ELSE <<Head(s)>> \o InsertAsc(Tail(s), x)

RECURSIVE SortAsc(_)
\* s.sort((a, b) => a - b)
SortAsc(s) == IF s = <<>> THEN <<>> ELSE InsertAsc(SortAsc(Tail(s)), Head(s))

Reverse(s) == [k \in 1..Len(s) |-> s[Len(s) + 1 - k]]

\* s.sort((a, b) => b - a)
SortDesc(s) == Reverse(SortAsc(s))

\* the arrays support and resistance once the pivot loop of lines 168-179 has run
PivotLocals(lows, highs) ==
  [support |-> SupportIn(lows, 3, Len(lows) - 2),
   resistance |-> ResistanceIn(highs, 3, Len(lows) - 2)]

\* faulty variant: the fallback is the first bar of the series
findSupportResistance_FirstBar(lows, highs) ==
  LET support == PivotLocals(lows, highs).support
      resistance == PivotLocals(lows, highs).resistance
      recentSupport == SortDesc(LastN(support, 3))
      recentResistance == SortAsc(LastN(resistance, 3))
  IN  [support |-> IF Len(recentSupport) > 0 THEN recentSupport
                   ELSE <<At(lows, 0)>>,
       resistance |-> IF Len(recentResistance) > 0 THEN recentResistance
                      ELSE <<At(highs, 0)>>]

findSupportResistance(lows, highs) ==
  LET support == PivotLocals(lows, highs).support
      resistance == PivotLocals(lows, highs).resistance
      recentSupport == SortDesc(LastN(support, 3))
      recentResistance == SortAsc(LastN(resistance, 3))
  IN  [support |-> IF Len(recentSupport) > 0 THEN recentSupport
                   ELSE <<At(lows, Len(lows) - 1)>>,
       resistance |-> IF Len(recentResistance) > 0 THEN recentResistance
                      ELSE <<At(highs, Len(highs) - 1)>>]

(***************************************************************************)
(* Signal synthesis.                                                       *)
(***************************************************************************)
Weight == Num(25)
HalfWeight == <<25, 2>>

\* faulty variant: equal averages count as an uptrend
MaCrossoverSignal_OrEqual(data) ==
  IF Ge(data.ma20, data.ma50)
  THEN [signal |-> "BUY", reason |-> "MA20 is above MA50, indicating uptrend", score |-> Weight]
  ELSE [signal |-> "SELL", reason |-> "MA20 is below MA50, indicating downtrend", score |-> Num(0)]

MaCrossoverSignal(data) ==
  IF Gt(data.ma20, data.ma50)
  THEN [signal |-> "BUY", reason |-> "MA20 is above MA50, indicating uptrend", score |-> Weight]
  ELSE [signal |-> "SELL", reason |-> "MA20 is below MA50, indicating downtrend", score |-> Num(0)]

\* faulty variant: the thresholds 30 and 70 belong to the outer zones
RsiSignal_Inclusive(data) ==
  IF Le(data.rsi, Num(30))
  THEN [signal |-> "BUY", reason |-> "RSI is oversold (<30), potential bounce", score |-> Weight]
  ELSE IF Ge(data.rsi, Num(70))
  THEN [signal |-> "SELL", reason |-> "RSI is overbought (>70), potential pullback", score |-> Num(0)]
  ELSE [signal |-> "NEUTRAL", reason |-> "RSI is in neutral zone", score |-> HalfWeight]

\* the reason of the neutral zone also quotes the RSI to one decimal place
RsiSignal(data) ==
  IF Lt(data.rsi, Num(30))
  THEN [signal |-> "BUY", reason |-> "RSI is oversold (<30), potential bounce", score |-> Weight]
  ELSE IF Gt(data.rsi, Num(70))
  THEN [signal |-> "SELL", reason |-> "RSI is overbought (>70), potential pullback", score |-> Num(0)]
  ELSE [signal |-> "NEUTRAL", reason |-> "RSI is in neutral zone", score |-> HalfWeight]

MacdSignal(data) ==
  IF Gt(data.macd, data.macdSignal)
  THEN [signal |-> "BUY", reason |-> "MACD is above signal line, bullish momentum", score |-> Weight]
  ELSE [signal |-> "SELL", reason |-> "MACD is below signal line, bearish momentum", score |-> Num(0)]

BollingerSignal(data) ==
  IF Lt(data.currentPrice, data.bollingerLower)
  THEN [signal |-> "BUY", reason |-> "Price below lower band, potential reversal up", score |-> Weight]
  ELSE IF Gt(data.currentPrice, data.bollingerUpper)
  THEN [signal |-> "SELL", reason |-> "Price above upper band, potential reversal down", score |-> Num(0)]
  ELSE [signal |-> "NEUTRAL", reason |-> "Price is within Bollinger Bands", score |-> HalfWeight]

\* buySignals once the four blocks have run
BuySignals(data) ==
  Add(Add(MaCrossoverSignal(data).score, RsiSignal(data).score),
      Add(MacdSignal(data).score, BollingerSignal(data).score))

\* faulty variant: a score of exactly 50 counts as BUY
Verdict_OrEqual(buySignals) ==
  IF Ge(buySignals, Num(50)) THEN "BUY"
  ELSE IF Lt(buySignals, Num(50)) THEN "SELL"
  ELSE "HOLD"

Verdict(buySignals) ==
  IF Gt(buySignals, Num(50)) THEN "BUY"
  ELSE IF Lt(buySignals, Num(50)) THEN "SELL"
  ELSE "HOLD"

SubSignal(r) == [signal |-> r.signal, reason |-> r.reason]

calculateSignal(data) ==
  LET buySignals == BuySignals(data)
  IN  [confidence |-> MathRound(buySignals),
       signal |-> Verdict(buySignals),
       signals |-> [maCrossover |-> SubSignal(MaCrossoverSignal(data)),
                    rsi |-> SubSignal(RsiSignal(data)),
                    macd |-> SubSignal(MacdSignal(data)),
                    bollinger |-> SubSignal(BollingerSignal(data))]]

(***************************************************************************)
(* Market sentiment.                                                       *)
(***************************************************************************)
RsiContribution(rsi) ==
  IF Lt(rsi, Num(30)) THEN Num(-15)
  ELSE IF Lt(rsi, Num(40)) THEN Num(-10)
  ELSE IF Gt(rsi, Num(70)) THEN Num(15)
  ELSE IF Gt(rsi, Num(60)) THEN Num(10)
  ELSE Num(0)

\* faulty variant: the magnitude is taken without Math.abs
MacdContribution_Signed(macdValue) ==
  IF Gt(macdValue, Num(0))
  THEN MathMin(Num(15), Mul(macdValue, Num(10)))
  ELSE Neg(MathMin(Num(15), Mul(macdValue, Num(10))))

MacdContribution(macdValue) ==
  IF Gt(macdValue, Num(0))
  THEN MathMin(Num(15), Mul(MathAbs(macdValue), Num(10)))
  ELSE Neg(MathMin(Num(15), Mul(MathAbs(macdValue), Num(10))))

\* faulty variant: the score is not clamped
Clamp_None(score) == score

\* Math.max(0, Math.min(100, score))
Clamp(score) == MathMax(Num(0), MathMin(Num(100), score))

\* faulty variant: a score on a threshold falls into the band below
SentimentLabel_Strict(score) ==
  IF Gt(score, Num(80)) THEN "Very Bullish"
  ELSE IF Gt(score, Num(60)) THEN "Bullish"
  ELSE IF Gt(score, Num(40)) THEN "Neutral"
  ELSE IF Gt(score, Num(20)) THEN "Bearish"
  ELSE "Very Bearish"

SentimentLabel(score) ==
  IF Ge(score, Num(80)) THEN "Very Bullish"
  ELSE IF Ge(score, Num(60)) THEN "Bullish"
  ELSE IF Ge(score, Num(40)) THEN "Neutral"
  ELSE IF Ge(score, Num(20)) THEN "Bearish"
  ELSE "Very Bearish"

determineMarketSentiment(rsi, macdValue, priceVsMA20) ==
  LET score == Clamp(Add(Add(Add(Num(50), RsiContribution(rsi)),
                             MacdContribution(macdValue)), priceVsMA20))
  IN  [sentiment |-> SentimentLabel(score), score |-> score]

(***************************************************************************)
(* The request handler.                                                    *)
(***************************************************************************)
RECURSIVE MaxIn(_, _, _)
MaxIn(s, lo, hi) ==
  IF lo = hi THEN s[lo]
  ELSE LET mid == (lo + hi) \div 2
           left == MaxIn(s, lo, mid)
           right == MaxIn(s, mid + 1, hi)
       IN  IF Gt(right, left) THEN right ELSE left

\* Math.max(...s)
MaxOf(s) == IF s = <<>> THEN NegInfinity ELSE MaxIn(s, 1, Len(s))

RECURSIVE MinIn(_, _, _)
MinIn(s, lo, hi) ==
  IF lo = hi THEN s[lo]
  ELSE LET mid == (lo + hi) \div 2
           left == MinIn(s, lo, mid)
           right == MinIn(s, mid + 1, hi)
       IN  IF Lt(right, left) THEN right ELSE left

\* Math.min(...s)
MinOf(s) == IF s = <<>> THEN PosInfinity ELSE MinIn(s, 1, Len(s))

Green == "rgba(34, 197, 94, 0.5)"
Red == "rgba(239, 68, 68, 0.5)"
HistGreen == "rgba(34, 197, 94, 0.8)"
HistRed == "rgba(239, 68, 68, 0.8)"

\* positions 1..n of the timestamps whose entry passes the filter
Kept(n, keep(_)) == SelectSeq([k \in 1..n |-> k], keep)

\* faulty variant: the null entries are not filtered out
ChartSeries_Unfiltered(timestamps, series) ==
  [j \in 1..Len(timestamps) |-> [time |-> timestamps[j], value |-> At(series, j - 1)]]

\* timestamps.map((ts, i) => ({time: ts, value: series[i]})).filter(d => d.value !== null)
ChartSeries(timestamps, series) ==
  LET kept == Kept(Len(timestamps), LAMBDA k : At(series, k - 1) # Null)
  IN  [j \in 1..Len(kept) |->
         [time |-> timestamps[kept[j]], value |-> At(series, kept[j] - 1)]]

CandleData(timestamps, opens, highs, lows, closes) ==
  LET kept == Kept(Len(timestamps),
                   LAMBDA k : /\ At(opens, k - 1) # Null /\ At(highs, k - 1) # Null
                              /\ At(lows, k - 1) # Null /\ At(closes, k - 1) # Null)
  IN  [j \in 1..Len(kept) |->
         [time |-> timestamps[kept[j]],
          open |-> At(opens, kept[j] - 1), high |-> At(highs, kept[j] - 1),
          low |-> At(lows, kept[j] - 1), close |-> At(closes, kept[j] - 1)]]

VolumeData(timestamps, volumes, closes, opens) ==
  LET kept == Kept(Len(timestamps), LAMBDA k : At(volumes, k - 1) # Null)
  IN  [j \in 1..Len(kept) |->
         [time |-> timestamps[kept[j]],
          value |-> At(volumes, kept[j] - 1),
          color |-> IF Ge(At(closes, kept[j] - 1), At(opens, kept[j] - 1))
                    THEN Green ELSE Red]]

HistogramData(timestamps, histogram) ==
  LET kept == Kept(Len(timestamps), LAMBDA k : At(histogram, k - 1) # Null)
  IN  [j \in 1..Len(kept) |->
         [time |-> timestamps[kept[j]],
          value |-> At(histogram, kept[j] - 1),
          color |-> IF Ge(OrElse(At(histogram, kept[j] - 1), Num(0)), Num(0))
                    THEN HistGreen ELSE HistRed]]

\* faulty variant: the latest values are handed over as they are
SignalInput_Raw(currentPrice, latest) ==
  [currentPrice |-> currentPrice,
   ma20 |-> latest.ma20,
   ma50 |-> latest.ma50,
   rsi |-> latest.rsi,
   macd |-> latest.macd,
   macdSignal |-> latest.macdSignal,
   bollingerUpper |-> latest.bollingerUpper,
   bollingerLower |-> latest.bollingerLower]

\* the object of lines 356-365 handed to calculateSignal
SignalInput(currentPrice, latest) ==
  [currentPrice |-> currentPrice,
   ma20 |-> OrElse(latest.ma20, currentPrice),
   ma50 |-> OrElse(latest.ma50, currentPrice),
   rsi |-> OrElse(latest.rsi, Num(50)),
   macd |-> OrElse(latest.macd, Num(0)),
   macdSignal |-> OrElse(latest.macdSignal, Num(0)),
   bollingerUpper |-> OrElse(latest.bollingerUpper, currentPrice),
   bollingerLower |-> OrElse(latest.bollingerLower, currentPrice)]

PriceVsMA20Percent(currentPrice, latestMa20) ==
  IF Falsy(latestMa20) THEN Num(0)
  ELSE Mul(Div(Minus(currentPrice, latestMa20), latestMa20), Num(100))

\* faulty variant: the quotient is taken whatever the previous close
ChangePercent_NoGuard(change, previousClose) ==
  LET quotient == Over(change, previousClose)
  IN  IF IsNum(quotient) THEN Mul(quotient, Num(100)) ELSE quotient

ChangePercent(change, previousClose) ==
  IF Gt(previousClose, Num(0)) THEN Mul(Div(change, previousClose), Num(100))
  ELSE Num(0)

\* symbol.replace('.NS', '') on the symbols of the model
StripNS(symbol) == IF symbol = "TCS.NS" THEN "TCS" ELSE symbol

\* the local variables of the handler once lines 320-431 have run on the quote
\* arrays of the upstream reply
Locals(timestamps, quote) ==
  LET closes == NotNull(quote.close)
      highs == NotNull(quote.high)
      lows == NotNull(quote.low)
      volumes == NotNull(quote.volume)
      opens == NotNull(quote.open)
      ma20 == calculateSMA(closes, 20)
      ma50 == calculateSMA(closes, 50)
      ma200 == calculateSMA(closes, 200)
      rsi == calculateRSI(closes, 14)
      m == calculateMACD(closes)
      b == calculateBollingerBands(closes, 20, Num(2))
      sr == findSupportResistance(lows, highs)
      lastIndex == Len(closes) - 1
      currentPrice == At(closes, lastIndex)
      previousClose == IF Len(closes) > 1 THEN At(closes, lastIndex - 1) ELSE currentPrice
      change == Minus(currentPrice, previousClose)
      latestMa20 == At(ma20, lastIndex)
      latestRsi == At(rsi, lastIndex)
      latestMacd == At(m.macd, lastIndex)
      signalInput == SignalInput(currentPrice,
                                 [ma20 |-> latestMa20, ma50 |-> At(ma50, lastIndex),
                                  rsi |-> latestRsi, macd |-> latestMacd,
                                  macdSignal |-> At(m.signal, lastIndex),
                                  bollingerUpper |-> At(b.upper, lastIndex),
                                  bollingerLower |-> At(b.lower, lastIndex)])
      priceVsMA20Percent == PriceVsMA20Percent(currentPrice, latestMa20)
  IN  [timestamps |-> timestamps,
       closes |-> closes, highs |-> highs, lows |-> lows,
       volumes |-> volumes, opens |-> opens,
       ma20 |-> ma20, ma50 |-> ma50, ma200 |-> ma200, rsi |-> rsi,
       macd |-> m.macd, macdSignal |-> m.signal, histogram |-> m.histogram,
       bollingerUpper |-> b.upper, bollingerMiddle |-> b.middle,
       bollingerLower |-> b.lower,
       support |-> sr.support, resistance |-> sr.resistance,
       lastIndex |-> lastIndex,
       currentPrice |-> currentPrice,
       previousClose |-> previousClose,
       change |-> change,
       changePercent |-> ChangePercent(change, previousClose),
       priceVsMA20Percent |-> priceVsMA20Percent,
       signalInput |-> signalInput,
       signalAnalysis |-> calculateSignal(signalInput),
       sentiment |-> determineMarketSentiment(OrElse(latestRsi, Num(50)),
                                              OrElse(latestMacd, Num(0)),
                                              priceVsMA20Percent),
       candleData |-> CandleData(timestamps, opens, highs, lows, closes),
       volumeData |-> VolumeData(timestamps, volumes, closes, opens),
       ma20Data |-> ChartSeries(timestamps, ma20),
       ma50Data |-> ChartSeries(timestamps, ma50),
       bollingerUpperData |-> ChartSeries(timestamps, b.upper),
       bollingerLowerData |-> ChartSeries(timestamps, b.lower),
       rsiData |-> ChartSeries(timestamps, rsi),
       macdData |-> ChartSeries(timestamps, m.macd),
       macdSignalData |-> ChartSeries(timestamps, m.signal),
       histogramData |-> HistogramData(timestamps, m.histogram)]

\* the result bundle of lines 433-480, from the local variables l
Bundle(symbol, meta, l) ==
  [symbol |-> symbol,
   name |-> IF meta.shortName = "" THEN StripNS(symbol) ELSE meta.shortName,
   currency |-> IF meta.currency = "" THEN "INR" ELSE meta.currency,
   currentPrice |-> l.currentPrice,
   previousClose |-> l.previousClose,
   change |-> l.change,
   changePercent |-> l.changePercent,
   dayHigh |-> MaxOf(LastN(l.highs, 96)),
   dayLow |-> MinOf(LastN(l.lows, 96)),
   volume |-> At(l.volumes, l.lastIndex),
   fiftyTwoWeekHigh |-> OrElse(meta.fiftyTwoWeekHigh, MaxOf(l.highs)),
   fiftyTwoWeekLow |-> OrElse(meta.fiftyTwoWeekLow, MinOf(l.lows)),
   indicators |-> [ma20 |-> At(l.ma20, l.lastIndex),
                   ma50 |-> At(l.ma50, l.lastIndex),
                   ma200 |-> At(l.ma200, l.lastIndex),
                   rsi |-> At(l.rsi, l.lastIndex),
                   macd |-> At(l.macd, l.lastIndex),
                   macdSignal |-> At(l.macdSignal, l.lastIndex),
                   macdHistogram |-> At(l.histogram, l.lastIndex),
                   bollingerUpper |-> At(l.bollingerUpper, l.lastIndex),
                   bollingerMiddle |-> At(l.bollingerMiddle, l.lastIndex),
                   bollingerLower |-> At(l.bollingerLower, l.lastIndex)],
   supportResistance |-> [support |-> l.support, resistance |-> l.resistance],
   signal |-> l.signalAnalysis,
   sentiment |-> l.sentiment,
   chartData |-> [candles |-> l.candleData,
                  volumes |-> l.volumeData,
                  ma20 |-> l.ma20Data,
                  ma50 |-> l.ma50Data,
                  bollingerUpper |-> l.bollingerUpperData,
                  bollingerLower |-> l.bollingerLowerData,
                  rsi |-> l.rsiData,
                  macd |-> l.macdData,
                  macdSignal |-> l.macdSignalData,
                  macdHistogram |-> l.histogramData]]

\* the reply of the try block when nothing is thrown
OkResponse(symbol, meta, l) == [status |-> 200, body |-> Bundle(symbol, meta, l)]

\* the message of the error thrown in the try block for a reply that fails: by
\* fetch, by one of the three checks of lines 302-318, or by the read of
\* quote.high.filter at line 322 on a quote without a high array
ErrorMessage(symbol, outcome) ==
  IF outcome = "rejected" THEN <<"fetch failed">>
  ELSE IF outcome = "notOk" THEN <<"Failed to fetch data for ", symbol>>
  ELSE IF outcome = "noResult" THEN <<"Invalid data format received">>
  ELSE IF outcome = "noQuote" THEN <<"No quote data available">>
  ELSE <<"Cannot read properties of undefined (reading 'filter')">>

\* faulty variant: the reply drops the symbol and the cause
ErrorResponse_Generic(symbol, message) ==
  [status |-> 500, body |-> [error |-> <<"Failed to fetch data">>]]

\* the reply of the catch block
ErrorResponse(symbol, message) ==
  [status |-> 500,
   body |-> [error |-> <<"Failed to fetch data for ", symbol, ". ">> \o message]]

(***************************************************************************)
(* Input series.                                                           *)
(***************************************************************************)
Prices == 1..MaxPrice

RECURSIVE SeqsUpTo(_, _)
\* every sequence over S of length at most n
SeqsUpTo(S, n) ==
  IF n = 0 THEN {<<>>}
  ELSE LET shorter == SeqsUpTo(S, n - 1)
       IN  shorter \cup {Append(s, x) : s \in {t \in shorter : Len(t) = n - 1}, x \in S}

\* every price series of at most MaxLen bars
ShortSeries == SeqsUpTo(Prices, MaxLen)

\* a run of equal closes followed by at most MaxTail bars of any price
LongSeries ==
  {[k \in 1..n |-> base] \o tail :
     n \in 0..MaxFlat, base \in Prices, tail \in SeqsUpTo(Prices, MaxTail)}

Nums(s) == [k \in 1..Len(s) |-> Num(s[k])] \o <<>>

Periods == 1..MaxPeriod

StdDevs == 0..MaxStdDev

(***************************************************************************)
(* The dashboard (src/unnamed/part_000).  A value that may be null is the  *)
(* empty sequence when it is null and a one-element sequence otherwise.    *)
(***************************************************************************)
None == <<>>

Some(x) == <<x>>

\* the symbols of the stocks list
StockList == {"RELIANCE.NS", "TCS.NS"}

\* the countdown starts at 60 seconds
RefreshPeriod == 60

\* JSON.stringify of an array of symbols, token by token
RECURSIVE Members(_)
Members(list) ==
  IF list = <<>> THEN <<>>
  ELSE IF Len(list) = 1 THEN <<"\"", list[1], "\"">>
  ELSE <<"\"", list[1], "\"", ",">> \o Members(Tail(list))

JSONStringify(list) == <<"[">> \o Members(list) \o <<"]">>

\* JSON.parse of such a text: the strings between quotes, in order
JSONParse(text) ==
  LET quoted == {k \in 2..(Len(text) - 1) : text[k - 1] = "\"" /\ text[k + 1] = "\""
                                             /\ text[k] \notin {"\"", ","}}
      RECURSIVE upTo(_)
      upTo(k) == IF k = 0 THEN <<>>
                 ELSE IF k \in quoted THEN Append(upTo(k - 1), text[k])
                 ELSE upTo(k - 1)
  IN  upTo(Len(text))

\* the state of the first render: the initial values of useState, nothing
\* stored yet read, no effect run
DashboardInit ==
  /\ mounted = FALSE
  /\ selectedStock = "RELIANCE.NS"
  /\ stockData = None
  /\ compareData = None
  /\ compareStock = ""
  /\ compareMode = FALSE
  /\ loading = TRUE
  /\ refreshCountdown = RefreshPeriod
  /\ watchlist = <<>>
  /\ storage = None
  /\ pending = EmptyBag
  /\ lastToast = None
  /\ lastFetch = "none"
  /\ keyDownWatchlist = <<>>
  /\ sinceReset = 0

(***************************************************************************)
(* The indicator engine: one call of one function on one input.            *)
(***************************************************************************)
Init ==
  /\ fn = "none"
  /\ args = <<>>
  /\ ret = <<>>
  /\ locals = <<>>
  /\ DashboardInit

CallSMA ==
  /\ fn = "none"
  /\ UNCHANGED dashVars
  /\ \E data \in ShortSeries, period \in Periods :
       /\ fn' = "calculateSMA"
       /\ args' = [data |-> Nums(data), period |-> period]
       /\ ret' = calculateSMA(Nums(data), period)
       /\ locals' = <<>>

CallEMA ==
  /\ fn = "none"
  /\ UNCHANGED dashVars
  /\ \E data \in ShortSeries, period \in Periods :
       /\ fn' = "calculateEMA"
       /\ args' = [data |-> Nums(data), period |-> period]
       /\ ret' = calculateEMA(Nums(data), period)
       /\ locals' = <<>>

CallRSI ==
  /\ fn = "none"
  /\ UNCHANGED dashVars
  /\ \E closes \in ShortSeries, period \in Periods :
       /\ fn' = "calculateRSI"
       /\ args' = [closes |-> Nums(closes), period |-> period]
       /\ ret' = calculateRSI(Nums(closes), period)
       /\ locals' = RSILocals(Nums(closes), period)

CallMACD ==
  /\ fn = "none"
  /\ UNCHANGED dashVars
  /\ \E closes \in LongSeries :
       /\ fn' = "calculateMACD"
       /\ args' = [closes |-> Nums(closes)]
       /\ ret' = calculateMACD(Nums(closes))
       /\ locals' = <<>>

CallBollinger ==
  /\ fn = "none"
  /\ UNCHANGED dashVars
  /\ \E closes \in ShortSeries, period \in Periods, stdDev \in StdDevs :
       /\ fn' = "calculateBollingerBands"
       /\ args' = [closes |-> Nums(closes), period |-> period, stdDev |-> Num(stdDev)]
       /\ ret' = calculateBollingerBands(Nums(closes), period, Num(stdDev))
       /\ locals' = <<>>

(***************************************************************************)
(* Replies of the quote provider.  A reply carries one entry per bar in    *)
(* every array; the provider marks a bar without data by null entries.     *)
(***************************************************************************)
Symbols == {"TCS.NS", "AAPL"}

Fields == {"close", "high", "low", "volume", "open"}

NoMeta == [shortName |-> "", currency |-> "",
           fiftyTwoWeekHigh |-> Undefined, fiftyTwoWeekLow |-> Undefined]

SomeMeta == [shortName |-> "Tata Consultancy", currency |-> "USD",
             fiftyTwoWeekHigh |-> Num(9), fiftyTwoWeekLow |-> Num(1)]

Metas == {NoMeta, SomeMeta}

\* which entries are null: none, or the last bar, in every array or in the
\* volume array alone
NullPatterns(n) ==
  {[f \in Fields |-> {}]}
    \cup {[f \in Fields |-> IF f \in F THEN {k} ELSE {}] :
            F \in {Fields, {"volume"}}, k \in {n} \cap 1..n}

Timestamps(n) == [k \in 1..n |-> 900 * k]

RawQuote(bars, nulls) ==
  LET Entry(f, k, v) == IF k \in nulls[f] THEN Null ELSE Num(v)
  IN  [close |-> [k \in 1..Len(bars) |-> Entry("close", k, bars[k])],
       high |-> [k \in 1..Len(bars) |-> Entry("high", k, bars[k] + 1)],
       low |-> [k \in 1..Len(bars) |-> Entry("low", k, bars[k] - 1)],
       volume |-> [k \in 1..Len(bars) |-> Entry("volume", k, 1000)],
       open |-> [k \in 1..Len(bars) |->
                   Entry("open", k, IF k = 1 THEN bars[1] ELSE bars[k - 1])]]

Failures == {"rejected", "notOk", "noResult", "noQuote", "noHigh"}

CallGETFailing ==
  /\ fn = "none"
  /\ UNCHANGED dashVars
  /\ \E symbol \in Symbols, outcome \in Failures :
       /\ fn' = "GET"
       /\ args' = [symbol |-> symbol, upstream |-> [outcome |-> outcome]]
       /\ locals' = <<>>
       /\ ret' = ErrorResponse(symbol, ErrorMessage(symbol, outcome))

\* the handler replies to a request whose upstream reply has the quote arrays
\* that leave it with the local variables l
Respond(timestamps, quote, l) ==
  \E symbol \in Symbols, meta \in Metas :
    /\ fn' = "GET"
    /\ args' = [symbol |-> symbol,
                upstream |-> [outcome |-> "ok", meta |-> meta,
                              timestamps |-> timestamps, quote |-> quote]]
    /\ locals' = l
    /\ ret' = OkResponse(symbol, meta, l)

CallGET ==
  /\ fn = "none"
  /\ UNCHANGED dashVars
  /\ \E bars \in LongSeries :
       \E nulls \in NullPatterns(Len(bars)) :
         Respond(Timestamps(Len(bars)), RawQuote(bars, nulls),
                 Locals(Timestamps(Len(bars)), RawQuote(bars, nulls)))

NextGET == CallGETFailing \/ CallGET

SpecGET == Init /\ [][NextGET]_vars

\* the replies of thinly traded symbols: at most MaxThin bars, a close of 0
\* among them
ThinSeries == SeqsUpTo(0..MaxPrice, MaxThin)

CallGETThin ==
  /\ fn = "none"
  /\ UNCHANGED dashVars
  /\ \E bars \in ThinSeries :
       \E nulls \in NullPatterns(Len(bars)) :
         Respond(Timestamps(Len(bars)), RawQuote(bars, nulls),
                 Locals(Timestamps(Len(bars)), RawQuote(bars, nulls)))

NextThin == CallGETThin

SpecThin == Init /\ [][NextThin]_vars

(***************************************************************************)
(* The synthesizer and the scorer on scalar inputs.                        *)
(***************************************************************************)
RsiLevels == {Num(0), Num(29), Num(30), Num(35), Num(40), Num(50),
              Num(60), Num(65), Num(70), Num(71), Num(100)}

MacdLevels == {Num(-1000), Num(-2), <<-1, 2>>, Num(0), <<1, 2>>, Num(2), Num(1000)}

Deviations == {Num(-500), Num(-100), Num(-20), <<-1, 2>>, Num(0),
               <<1, 2>>, Num(20), Num(100), Num(500)}

PriceLevels == {Num(p) : p \in Prices}

CallSignal ==
  /\ fn = "none"
  /\ UNCHANGED dashVars
  /\ \E currentPrice \in PriceLevels, ma20 \in PriceLevels, ma50 \in PriceLevels,
        rsi \in {Num(0), Num(29), Num(30), Num(50), Num(70), Num(71)},
        macd \in {Num(-1), Num(0), Num(1)}, macdSignal \in {Num(0), <<1, 2>>},
        bollingerUpper \in PriceLevels, bollingerLower \in PriceLevels :
       LET data == [currentPrice |-> currentPrice, ma20 |-> ma20, ma50 |-> ma50,
                    rsi |-> rsi, macd |-> macd, macdSignal |-> macdSignal,
                    bollingerUpper |-> bollingerUpper, bollingerLower |-> bollingerLower]
       IN  /\ fn' = "calculateSignal"
           /\ args' = data
           /\ ret' = calculateSignal(data)
           /\ locals' = <<>>

CallSentiment ==
  /\ fn = "none"
  /\ UNCHANGED dashVars
  /\ \E rsi \in RsiLevels, macdValue \in MacdLevels, priceVsMA20 \in Deviations :
       /\ fn' = "determineMarketSentiment"
       /\ args' = [rsi |-> rsi, macdValue |-> macdValue, priceVsMA20 |-> priceVsMA20]
       /\ ret' = determineMarketSentiment(rsi, macdValue, priceVsMA20)
       /\ locals' = <<>>

NextSynth == CallSignal \/ CallSentiment

SpecSynth == Init /\ [][NextSynth]_vars

NextEngine == CallSMA \/ CallEMA \/ CallRSI \/ CallMACD \/ CallBollinger

SpecEngine == Init /\ [][NextEngine]_vars

(***************************************************************************)
(* The level detector on series of lows and highs of one length.           *)
(***************************************************************************)
Levels == 1..MaxLevel

\* blocks top, top, d one after the other, then at most two more bars at the
\* top: a dip d below the top is a pivot, a dip at the top is none
RECURSIVE PivotTrains(_)
PivotTrains(n) ==
  IF n = 0 THEN {<<>>}
  ELSE LET shorter == PivotTrains(n - 1)
       IN  shorter \cup {t \o <<MaxLevel, MaxLevel, d>> :
                           t \in {u \in shorter : Len(u) = 3 * (n - 1)}, d \in Levels}

\* every series of at most MaxBars bars, and the trains of at most MaxPivots
\* blocks
LowSeries ==
  SeqsUpTo(Levels, MaxBars)
    \cup {t \o [k \in 1..e |-> MaxLevel] : t \in PivotTrains(MaxPivots), e \in 0..2}

\* the highs of the bars whose lows are given: a fixed spread above the low, the
\* lows mirrored about the top level, or one level for every bar
HighSeries(lows) ==
  {[k \in 1..Len(lows) |-> lows[k] + 1],
   [k \in 1..Len(lows) |-> 2 * MaxLevel + 1 - lows[k]],
   [k \in 1..Len(lows) |-> MaxLevel + 1]}

CallLevels ==
  /\ fn = "none"
  /\ UNCHANGED dashVars
  /\ \E lows \in LowSeries :
       \E highs \in HighSeries(lows) :
         /\ fn' = "findSupportResistance"
         /\ args' = [lows |-> Nums(lows), highs |-> Nums(highs)]
         /\ ret' = findSupportResistance(Nums(lows), Nums(highs))
         /\ locals' = PivotLocals(Nums(lows), Nums(highs))

NextLevels == CallLevels

SpecLevels == Init /\ [][NextLevels]_vars

(***************************************************************************)
(* The Bollinger bands in floating-point arithmetic.  A number of the      *)
(* language is a binary floating-point number and every operation rounds   *)
(* its exact result to the nearest one, ties to even.  The format of the   *)
(* model has Precision significant bits (a double has 53) and no exponent  *)
(* limits.                                                                 *)
(***************************************************************************)
RECURSIVE BitLen(_)
\* the number of binary digits of n >= 0
BitLen(n) == IF n = 0 THEN 0 ELSE 1 + BitLen(n \div 2)

\* 2^e for an integer e
Pow2(e) == IF e >= 0 THEN <<2 ^ e, 1>> ELSE <<1, 2 ^ (-e)>>

RECURSIVE UlpFrom(_, _)
\* the power of two u with 2^(Precision-1) <= q / u < 2^Precision, for q > 0
UlpFrom(q, u) ==
  IF Ge(Div(q, u), Num(2 ^ Precision)) THEN UlpFrom(q, Mul(u, Num(2)))
  ELSE IF Lt(Div(q, u), Num(2 ^ (Precision - 1))) THEN UlpFrom(q, Div(u, Num(2)))
  ELSE u

\* the integer nearest to r >= 0, ties to even
NearestEven(r) ==
  LET f == r[1] \div r[2]
      twice == 2 * (r[1] % r[2])
  IN  IF twice > r[2] \/ (twice = r[2] /\ f % 2 = 1) THEN f + 1 ELSE f

\* the floating-point number nearest to x
Fl(x) ==
  IF x[1] = 0 THEN x
  ELSE LET q == MathAbs(x)
           u == UlpFrom(q, Pow2(BitLen(q[1]) - BitLen(q[2]) - Precision))
           r == Mul(Num(NearestEven(Div(q, u))), u)
       IN  IF x[1] < 0 THEN Neg(r) ELSE r

FlAdd(x, y) == Fl(Add(x, y))
FlSub(x, y) == Fl(Sub(x, y))
FlMul(x, y) == Fl(Mul(x, y))
FlDiv(x, y) == Fl(Div(x, y))

RECURSIVE SqrtUlpFrom(_, _)
\* the power of two u with 2^(Precision-1) <= sqrt(x) / u < 2^Precision, for x > 0
SqrtUlpFrom(x, u) ==
  IF Ge(Div(x, Mul(u, u)), Num(4 ^ Precision)) THEN SqrtUlpFrom(x, Mul(u, Num(2)))
  ELSE IF Lt(Div(x, Mul(u, u)), Num(4 ^ (Precision - 1)))
    THEN SqrtUlpFrom(x, Div(u, Num(2)))
  ELSE u

\* Math.sqrt of x >= 0: the floating-point number nearest to the square root
FlSqrt(x) ==
  IF x[1] = 0 THEN x
  ELSE LET u == SqrtUlpFrom(x, Pow2((BitLen(x[1]) - BitLen(x[2])) \div 2 - Precision))
           w == Div(x, Mul(u, u))
           m == ISqrtIn(0, 46340, w[1] \div w[2])
           up == Gt(Mul(w, Num(4)), Num(4 * m * m + 4 * m + 1))
       IN  Mul(Num(IF up THEN m + 1 ELSE m), u)

RECURSIVE FlSum(_, _, _)
\* data.slice(lo-1, hi).reduce((a, b) => a + b, 0), added from the left
FlSum(data, lo, hi) ==
  IF lo > hi THEN Num(0) ELSE FlAdd(FlSum(data, lo, hi - 1), data[hi])

\* faulty variant: the window starts one entry too early
calculateSMAFl_LongWindow(data, period) ==
  Pushed(Len(data),
         LAMBDA k : IF k - 1 < period - 1 THEN Null
                    ELSE FlDiv(FlSum(data, IF k > period THEN k - period ELSE 1, k),
                               Num(period)))

\* calculateSMA in floating-point arithmetic
calculateSMAFl(data, period) ==
  Pushed(Len(data),
         LAMBDA k : IF k - 1 < period - 1 THEN Null
                    ELSE FlDiv(FlSum(data, k - period + 1, k), Num(period)))

\* std of the window that ends at position k
WindowStdFl(closes, mean, period, k) ==
  LET squaredDiffs == [j \in 1..Len(closes) |->
                         LET diff == FlSub(closes[j], mean) IN FlMul(diff, diff)]
  IN  FlSqrt(FlDiv(FlSum(squaredDiffs, k - period + 1, k), Num(period)))

\* calculateBollingerBands in floating-point arithmetic
calculateBollingerBandsFl(closes, period, stdDev) ==
  LET middle == calculateSMAFl(closes, period)
      width == Pushed(Len(closes),
                      LAMBDA k : IF k - 1 < period - 1 THEN Null
                                 ELSE FlMul(stdDev,
                                            WindowStdFl(closes, middle[k], period, k)))
  IN  [upper |-> Pushed(Len(closes),
                        LAMBDA k : IF k - 1 < period - 1 THEN Null
                                   ELSE FlAdd(middle[k], width[k])),
       middle |-> middle,
       lower |-> Pushed(Len(closes),
                        LAMBDA k : IF k - 1 < period - 1 THEN Null
                                   ELSE FlSub(middle[k], width[k]))]

\* decimal prices 0.1, 0.2, ... as the floating-point numbers they are read as
FloatPrices == {Fl(<<t, 10>>) : t \in 1..MaxTenths}

\* at most MaxHead bars of any price followed by a run of equal closes
FloatSeries ==
  {head \o [k \in 1..n |-> c] :
     head \in SeqsUpTo(FloatPrices, MaxHead), n \in 0..MaxLen, c \in FloatPrices}

CallBollingerFl ==
  /\ fn = "none"
  /\ UNCHANGED dashVars
  /\ \E closes \in FloatSeries, period \in Periods :
       /\ fn' = "calculateBollingerBands"
       /\ args' = [closes |-> closes, period |-> period, stdDev |-> Num(2)]
       /\ ret' = calculateBollingerBandsFl(closes, period, Num(2))
       /\ locals' = <<>>

NextFloat == CallBollingerFl

SpecFloat == Init /\ [][NextFloat]_vars

(***************************************************************************)
(* The dashboard's handlers and effects.  A handler runs to its end, state *)
(* updates of one handler are applied together, and the effects whose      *)
(* dependencies changed run with it.                                       *)
(***************************************************************************)
Range(list) == {list[k] : k \in DOMAIN list}

\* what is stored under the watchlist key when the component mounts
SavedWatchlists == {None, Some(JSONStringify(<<"TCS.NS">>))}

StockRequest(symbol) == [kind |-> "stock", symbol |-> symbol]

CompareRequest(symbol) == [kind |-> "compare", symbol |-> symbol]

\* n more fetches can be started
Room(n) == BagCardinality(pending) + n <= MaxPending

\* fetchCompareData(compareStock) under its guard compareMode && compareStock
CompareFetch ==
  IF compareMode /\ compareStock # "" THEN SetToBag({CompareRequest(compareStock)})
  ELSE EmptyBag

\* the body of the response to a fetch of the stock route for the symbol
DataOf(symbol) == [symbol |-> symbol]

ErrorToast(symbol) ==
  [title |-> "Error", description |-> <<"Failed to load data for ", symbol>>,
   variant |-> "destructive"]

\* newWatchlist of toggleWatchlist, from the watchlist its closure holds
NewWatchlist(seen, symbol) ==
  IF symbol \in Range(seen) THEN SelectSeq(seen, LAMBDA s : s # symbol)
  ELSE Append(seen, symbol)

WatchlistToast(seen, symbol) ==
  IF symbol \in Range(seen)
  THEN [title |-> "Removed from Watchlist",
        description |-> <<symbol, " has been ", "removed from", " your watchlist">>,
        variant |-> "default"]
  ELSE [title |-> "Added to Watchlist",
        description |-> <<symbol, " has been ", "added to", " your watchlist">>,
        variant |-> "default"]

\* toggleWatchlist(symbol) as defined by the render that saw the watchlist seen
toggleWatchlist(seen, symbol) ==
  /\ watchlist' = NewWatchlist(seen, symbol)
  /\ storage' = Some(JSONStringify(NewWatchlist(seen, symbol)))
  /\ lastToast' = Some(WatchlistToast(seen, symbol))

\* the effects of the first render: the stored watchlist is read, the selected
\* stock is fetched, the timer is started and the keydown handler registered
Mount ==
  /\ ~mounted
  /\ mounted' = TRUE
  /\ \E saved \in SavedWatchlists :
       /\ storage' = saved
       /\ watchlist' = IF saved = None THEN watchlist ELSE JSONParse(saved[1])
  /\ loading' = TRUE
  /\ pending' = pending (+) SetToBag({StockRequest(selectedStock)})
  /\ keyDownWatchlist' = watchlist
  /\ UNCHANGED <<selectedStock, stockData, compareData, compareStock, compareMode,
                 refreshCountdown, lastToast, lastFetch, sinceReset, routeVars>>

\* another stock is picked in the stock selector
SelectStock ==
  /\ mounted
  /\ Room(1)
  /\ \E symbol \in StockList \ {selectedStock} :
       /\ selectedStock' = symbol
       /\ pending' = pending (+) SetToBag({StockRequest(symbol)})
  /\ loading' = TRUE
  /\ keyDownWatchlist' = watchlist
  /\ UNCHANGED <<mounted, stockData, compareData, compareStock, compareMode,
                 refreshCountdown, watchlist, storage, lastToast, lastFetch,
                 sinceReset, routeVars>>

\* a card of the watchlist panel is clicked
SelectFromWatchlist ==
  /\ mounted /\ ~loading /\ stockData # None
  /\ \E symbol \in Range(watchlist) :
       /\ selectedStock' = symbol
       /\ compareMode' = FALSE
       /\ IF symbol # selectedStock
          THEN /\ Room(1)
               /\ pending' = pending (+) SetToBag({StockRequest(symbol)})
               /\ loading' = TRUE
               /\ keyDownWatchlist' = watchlist
          ELSE UNCHANGED <<pending, loading, keyDownWatchlist>>
  /\ UNCHANGED <<mounted, stockData, compareData, compareStock, refreshCountdown,
                 watchlist, storage, lastToast, lastFetch, sinceReset, routeVars>>

\* the compare switch is flipped
ToggleCompareMode ==
  /\ mounted
  /\ compareMode' = ~compareMode
  /\ IF ~compareMode /\ compareStock # ""
     THEN /\ Room(1)
          /\ pending' = pending (+) SetToBag({CompareRequest(compareStock)})
     ELSE UNCHANGED pending
  /\ UNCHANGED <<mounted, selectedStock, stockData, compareData, compareStock, loading,
                 refreshCountdown, watchlist, storage, lastToast, lastFetch,
                 keyDownWatchlist, sinceReset, routeVars>>

\* another stock is picked in the compare selector, which shows in compare mode
\* and offers the stocks other than the selected one
SelectCompareStock ==
  /\ mounted /\ compareMode
  /\ Room(1)
  /\ \E symbol \in StockList \ {selectedStock, compareStock} :
       /\ compareStock' = symbol
       /\ pending' = pending (+) SetToBag({CompareRequest(symbol)})
  /\ UNCHANGED <<mounted, selectedStock, stockData, compareData, compareMode, loading,
                 refreshCountdown, watchlist, storage, lastToast, lastFetch,
                 keyDownWatchlist, sinceReset, routeVars>>

\* the refresh button
RefreshButton ==
  /\ mounted
  /\ Room(1 + BagCardinality(CompareFetch))
  /\ pending' = pending (+) SetToBag({StockRequest(selectedStock)}) (+) CompareFetch
  /\ loading' = TRUE
  /\ refreshCountdown' = RefreshPeriod
  /\ sinceReset' = 0
  /\ UNCHANGED <<mounted, selectedStock, stockData, compareData, compareStock,
                 compareMode, watchlist, storage, lastToast, lastFetch,
                 keyDownWatchlist, routeVars>>

\* the key R
KeyRefresh ==
  /\ mounted
  /\ Room(1)
  /\ pending' = pending (+) SetToBag({StockRequest(selectedStock)})
  /\ loading' = TRUE
  /\ refreshCountdown' = RefreshPeriod
  /\ sinceReset' = 0
  /\ UNCHANGED <<mounted, selectedStock, stockData, compareData, compareStock,
                 compareMode, watchlist, storage, lastToast, lastFetch,
                 keyDownWatchlist, routeVars>>

\* the key +, handled by the handler registered when the selected stock or
\* the stock data last changed
KeyPlus ==
  /\ mounted /\ stockData # None
  /\ toggleWatchlist(keyDownWatchlist, stockData[1].symbol)
  /\ UNCHANGED <<mounted, selectedStock, stockData, compareData, compareStock,
                 compareMode, loading, refreshCountdown, pending, lastFetch,
                 keyDownWatchlist, sinceReset, routeVars>>

\* the Watch button of the price card, shown with the stock data
WatchButton ==
  /\ mounted /\ ~loading /\ stockData # None
  /\ toggleWatchlist(watchlist, stockData[1].symbol)
  /\ UNCHANGED <<mounted, selectedStock, stockData, compareData, compareStock,
                 compareMode, loading, refreshCountdown, pending, lastFetch,
                 keyDownWatchlist, sinceReset, routeVars>>

\* the remove button of a card of the watchlist panel
RemoveButton ==
  /\ mounted /\ ~loading /\ stockData # None
  /\ \E symbol \in Range(watchlist) : toggleWatchlist(watchlist, symbol)
  /\ UNCHANGED <<mounted, selectedStock, stockData, compareData, compareStock,
                 compareMode, loading, refreshCountdown, pending, lastFetch,
                 keyDownWatchlist, sinceReset, routeVars>>

\* faulty variant: the countdown runs down to 0 before the refresh
Tick_ToZero ==
  /\ mounted
  /\ IF refreshCountdown <= 0
     THEN /\ Room(1 + BagCardinality(CompareFetch))
          /\ pending' = pending (+) SetToBag({StockRequest(selectedStock)}) (+) CompareFetch
          /\ loading' = TRUE
          /\ refreshCountdown' = RefreshPeriod
          /\ sinceReset' = 0
     ELSE /\ refreshCountdown' = refreshCountdown - 1
          /\ sinceReset' = sinceReset + 1
          /\ UNCHANGED <<pending, loading>>
  /\ UNCHANGED <<mounted, selectedStock, stockData, compareData, compareStock,
                 compareMode, watchlist, storage, lastToast, lastFetch,
                 keyDownWatchlist, routeVars>>

\* one tick of the one-second timer
Tick ==
  /\ mounted
  /\ IF refreshCountdown <= 1
     THEN /\ Room(1 + BagCardinality(CompareFetch))
          /\ pending' = pending (+) SetToBag({StockRequest(selectedStock)}) (+) CompareFetch
          /\ loading' = TRUE
          /\ refreshCountdown' = RefreshPeriod
          /\ sinceReset' = 0
     ELSE /\ refreshCountdown' = refreshCountdown - 1
          /\ sinceReset' = sinceReset + 1
          /\ UNCHANGED <<pending, loading>>
  /\ UNCHANGED <<mounted, selectedStock, stockData, compareData, compareStock,
                 compareMode, watchlist, storage, lastToast, lastFetch,
                 keyDownWatchlist, routeVars>>

\* a fetch of fetchStockData is answered with the data of its symbol
StockArrives ==
  /\ \E request \in BagToSet(pending) :
       /\ request.kind = "stock"
       /\ pending' = pending (-) SetToBag({request})
       /\ stockData' = Some(DataOf(request.symbol))
  /\ loading' = FALSE
  /\ lastFetch' = "ok"
  /\ keyDownWatchlist' = watchlist
  /\ UNCHANGED <<mounted, selectedStock, compareData, compareStock, compareMode,
                 refreshCountdown, watchlist, storage, lastToast, sinceReset,
                 routeVars>>

\* faulty variant: the failure also clears the stock data
StockFails_ClearsData ==
  /\ \E request \in BagToSet(pending), cause \in {"rejected", "notOk"} :
       /\ request.kind = "stock"
       /\ pending' = pending (-) SetToBag({request})
       /\ lastToast' = Some(ErrorToast(request.symbol))
       /\ lastFetch' = cause
  /\ loading' = FALSE
  /\ stockData' = None
  /\ UNCHANGED <<mounted, selectedStock, compareData, compareStock,
                 compareMode, refreshCountdown, watchlist, storage,
                 keyDownWatchlist, sinceReset, routeVars>>

\* a fetch of fetchStockData is rejected or answered with a status that is not ok
StockFails ==
  /\ \E request \in BagToSet(pending), cause \in {"rejected", "notOk"} :
       /\ request.kind = "stock"
       /\ pending' = pending (-) SetToBag({request})
       /\ lastToast' = Some(ErrorToast(request.symbol))
       /\ lastFetch' = cause
  /\ loading' = FALSE
  /\ UNCHANGED <<mounted, selectedStock, stockData, compareData, compareStock,
                 compareMode, refreshCountdown, watchlist, storage,
                 keyDownWatchlist, sinceReset, routeVars>>

\* a fetch of fetchCompareData is answered with the data of its symbol
CompareArrives ==
  /\ \E request \in BagToSet(pending) :
       /\ request.kind = "compare"
       /\ pending' = pending (-) SetToBag({request})
       /\ compareData' = Some(DataOf(request.symbol))
  /\ UNCHANGED <<mounted, selectedStock, stockData, compareStock, compareMode, loading,
                 refreshCountdown, watchlist, storage, lastToast, lastFetch,
                 keyDownWatchlist, sinceReset, routeVars>>

\* a fetch of fetchCompareData is rejected or answered with a status that is not ok
CompareFails ==
  /\ \E request \in BagToSet(pending) :
       /\ request.kind = "compare"
       /\ pending' = pending (-) SetToBag({request})
  /\ UNCHANGED <<mounted, selectedStock, stockData, compareData, compareStock,
                 compareMode, loading, refreshCountdown, watchlist, storage,
                 lastToast, lastFetch, keyDownWatchlist, sinceReset, routeVars>>

\* selections, refreshes and the answers to the stock fetches
NextFetch ==
  \/ Mount \/ SelectStock \/ RefreshButton \/ KeyRefresh \/ Tick
  \/ StockArrives \/ StockFails

SpecFetch == Init /\ [][NextFetch]_vars

\* the countdown, with compare mode and the answers that settle the fetches
NextTimer ==
  \/ Mount \/ SelectStock \/ ToggleCompareMode \/ SelectCompareStock
  \/ RefreshButton \/ KeyRefresh \/ Tick
  \/ StockArrives \/ CompareArrives

SpecTimer == Init /\ [][NextTimer]_vars

\* the fetches of both kinds and how they settle
NextCompare ==
  \/ Mount \/ SelectStock \/ ToggleCompareMode \/ SelectCompareStock
  \/ RefreshButton \/ KeyRefresh
  \/ StockArrives \/ StockFails \/ CompareArrives \/ CompareFails

SpecCompare == Init /\ [][NextCompare]_vars

\* the watchlist, with the selections and answers that renew the keydown handler
NextWatchlist ==
  \/ Mount \/ SelectStock \/ SelectFromWatchlist
  \/ KeyPlus \/ WatchButton \/ RemoveButton
  \/ StockArrives \/ StockFails

SpecWatchlist == Init /\ [][NextWatchlist]_vars

(***************************************************************************)
(* Properties.                                                             *)
(***************************************************************************)
AllNull(s) == \A k \in 1..Len(s) : s[k] = Null

\* C1: the arrays returned by calculateSMA, calculateEMA, calculateBollingerBands
\* and calculateMACD each have exactly as many entries as the input series.
C1_OutputLengths ==
  /\ fn \in {"calculateSMA", "calculateEMA"} => Len(ret) = Len(args.data)
  /\ fn = "calculateBollingerBands" =>
       /\ Len(ret.upper) = Len(args.closes)
       /\ Len(ret.middle) = Len(args.closes)
       /\ Len(ret.lower) = Len(args.closes)
  /\ fn = "calculateMACD" =>
       /\ Len(ret.macd) = Len(args.closes)
       /\ Len(ret.signal) = Len(args.closes)
       /\ Len(ret.histogram) = Len(args.closes)

\* a Bollinger call on a series longer than its period: warm-up and defined entries
C1_Witness ==
  /\ fn = "calculateBollingerBands"
  /\ args.period > 1
  /\ Len(args.closes) > args.period
  /\ Len(ret.upper) = Len(args.closes)
  /\ ret.upper[1] = Null
  /\ ret.upper[Len(args.closes)] # Null

\* C2: on a series shorter than the period, calculateSMA, calculateEMA,
\* calculateRSI and calculateBollingerBands return null at every index, and
\* calculateMACD returns all-null macd, signal and histogram below 26 bars.
C2_ShortSeriesAllNull ==
  /\ fn \in {"calculateSMA", "calculateEMA"} /\ Len(args.data) < args.period
       => AllNull(ret) /\ Len(ret) = Len(args.data)
  /\ fn = "calculateRSI" /\ Len(args.closes) < args.period
       => AllNull(ret) /\ Len(ret) = Len(args.closes)
  /\ fn = "calculateBollingerBands" /\ Len(args.closes) < args.period
       => AllNull(ret.upper) /\ AllNull(ret.middle) /\ AllNull(ret.lower)
  /\ fn = "calculateMACD" /\ Len(args.closes) < SlowPeriod
       => AllNull(ret.macd) /\ AllNull(ret.signal) /\ AllNull(ret.histogram)

\* an SMA call on a non-empty series one bar short of the period
C2_Witness ==
  /\ fn = "calculateSMA"
  /\ Len(args.data) = args.period - 1
  /\ Len(args.data) >= 2
  /\ AllNull(ret)

\* no close of the `period` changes ending at position k is below its predecessor
NoFallIn(closes, period, k) ==
  \A j \in (k - period + 1)..k : j > 1 => Ge(closes[j], closes[j - 1])

\* C3: every defined value of calculateRSI lies in [0, 100], and where the
\* trailing `period` changes hold no fall the value is exactly 100.
C3_RsiRange ==
  fn = "calculateRSI" =>
    \A k \in 1..Len(ret) :
      /\ ret[k] # Null => IsNum(ret[k]) /\ Ge(ret[k], Num(0)) /\ Le(ret[k], Num(100))
      /\ k - 1 >= args.period /\ NoFallIn(args.closes, args.period, k)
           => ret[k] = Num(100)

\* an RSI of 100 over a flat window, and a value strictly inside the range
C3_Witness ==
  /\ fn = "calculateRSI"
  /\ args.period >= 2
  /\ \E k \in 1..Len(ret) :
       /\ k - 1 >= args.period
       /\ \A j \in (k - args.period)..k : args.closes[j] = args.closes[k]
       /\ ret[k] = Num(100)
  /\ \E k \in 1..Len(ret) : Gt(ret[k], Num(0)) /\ Lt(ret[k], Num(100))

\* C4: the confidence of calculateSignal is an integer in [0, 100]; above 50 the
\* verdict is BUY, below 50 SELL, at 50 HOLD.
C4_VerdictMatchesConfidence ==
  fn = "calculateSignal" =>
    /\ ret.confidence[2] = 1
    /\ ret.confidence[1] \in 0..100
    /\ ret.confidence[1] > 50 => ret.signal = "BUY"
    /\ ret.confidence[1] < 50 => ret.signal = "SELL"
    /\ ret.confidence[1] = 50 => ret.signal = "HOLD"

\* a score of 37.5, rounded to 38, with the verdict SELL
C4_Witness ==
  /\ fn = "calculateSignal"
  /\ BuySignals(args) = <<75, 2>>
  /\ ret.confidence = Num(38)
  /\ ret.signal = "SELL"

\* the arrays of an evaluation differ in length
Misaligned(l) ==
  Cardinality({Len(l.timestamps), Len(l.opens), Len(l.highs), Len(l.lows),
               Len(l.closes), Len(l.volumes)}) > 1

\* C5: an evaluation whose open/high/low/close/volume/timestamp arrays differ in
\* length fails with an error instead of returning a result bundle.
C5_MismatchFails ==
  fn = "GET" /\ args.upstream.outcome = "ok" /\ Misaligned(locals) => ret.status = 500

\* the k-th entry of the 9-period EMA of the defined MACD values, for the entry
\* at position k of the full series
SignalEmaAt(macd, k) ==
  At(calculateEMA(NotNull(macd), SignalPeriod), Len(NotNull(SubSeq(macd, 1, k))) - 1)

\* C6: the signal line is the 9-period EMA of the defined MACD values put back
\* on the original indices: defined and equal to it from the 9th defined MACD
\* value on (also when it is 0), null before and wherever the MACD is null.
C6_SignalIsEmaOfMacd ==
  fn = "calculateMACD" =>
    \A k \in 1..Len(ret.macd) :
      IF ret.macd[k] = Null \/ Len(NotNull(SubSeq(ret.macd, 1, k))) < SignalPeriod
      THEN ret.signal[k] = Null
      ELSE ret.signal[k] # Null /\ ret.signal[k] = SignalEmaAt(ret.macd, k)

\* every indicator the synthesizer reads is absent at the latest index
WarmUp(l) ==
  /\ Len(l.closes) >= 1
  /\ ~IsNum(At(l.ma20, l.lastIndex)) /\ ~IsNum(At(l.ma50, l.lastIndex))
  /\ ~IsNum(At(l.rsi, l.lastIndex)) /\ ~IsNum(At(l.macd, l.lastIndex))
  /\ ~IsNum(At(l.macdSignal, l.lastIndex))
  /\ ~IsNum(At(l.bollingerUpper, l.lastIndex))
  /\ ~IsNum(At(l.bollingerLower, l.lastIndex))

\* C7 as stated: during warm-up, with the neutral defaults substituted, the
\* verdict is HOLD.
C7_WarmUpHold ==
  fn = "GET" /\ args.upstream.outcome = "ok" /\ WarmUp(locals)
    => ret.body.signal.signal = "HOLD"

\* C7 as amended: during warm-up, with the neutral defaults substituted, the
\* verdict is SELL with confidence 25: the MA crossover and the MACD sub-signals
\* are SELL, the RSI and the Bollinger sub-signals NEUTRAL.
C7_WarmUpSell ==
  fn = "GET" /\ args.upstream.outcome = "ok" /\ WarmUp(locals) =>
    /\ ret.body.signal.signal = "SELL"
    /\ ret.body.signal.confidence = Num(25)
    /\ ret.body.signal.signals.maCrossover.signal = "SELL"
    /\ ret.body.signal.signals.rsi.signal = "NEUTRAL"
    /\ ret.body.signal.signals.macd.signal = "SELL"
    /\ ret.body.signal.signals.bollinger.signal = "NEUTRAL"

\* a reply of 5 aligned bars: every lookback is longer
C7_Witness ==
  /\ fn = "GET"
  /\ args.upstream.outcome = "ok"
  /\ WarmUp(locals)
  /\ ~Misaligned(locals)
  /\ Len(locals.closes) = 5
  /\ locals.signalInput.ma20 = locals.currentPrice
  /\ locals.signalInput.rsi = Num(50)
  /\ ret.body.signal.signal = "SELL"

\* the indicator arrays of an evaluation with the chart series built from each
ChartPairs(l, c) ==
  {<<l.ma20, c.ma20>>, <<l.ma50, c.ma50>>,
   <<l.bollingerUpper, c.bollingerUpper>>, <<l.bollingerLower, c.bollingerLower>>,
   <<l.rsi, c.rsi>>, <<l.macd, c.macd>>, <<l.macdSignal, c.macdSignal>>,
   <<l.histogram, c.macdHistogram>>}

\* C8 as stated: every indicator series of the bundle has one entry per input
\* timestamp, the warm-up indices included.
C8_ChartSeriesFullLength ==
  fn = "GET" /\ args.upstream.outcome = "ok" =>
    \A p \in ChartPairs(locals, ret.body.chartData) :
      Len(p[2]) = Len(args.upstream.timestamps)

\* the position among the timestamps of a chart entry
PositionOf(timestamps, time) == CHOOSE k \in 1..Len(timestamps) : timestamps[k] = time

\* C8 as amended: every indicator series of the bundle has, in timestamp order,
\* exactly one entry for each timestamp index at which the indicator array does
\* not hold null, carrying the array's value at that index; the indices that hold
\* null (the warm-up) are omitted.
C8_ChartSeriesOmitNull ==
  fn = "GET" /\ args.upstream.outcome = "ok" =>
    LET timestamps == args.upstream.timestamps
    IN  \A p \in ChartPairs(locals, ret.body.chartData) :
          /\ \A j \in 1..Len(p[2]) :
               /\ \E k \in 1..Len(timestamps) : timestamps[k] = p[2][j].time
               /\ p[2][j].value = At(p[1], PositionOf(timestamps, p[2][j].time) - 1)
               /\ p[2][j].value # Null
               /\ j > 1 => p[2][j - 1].time < p[2][j].time
          /\ \A k \in 1..Len(timestamps) :
               At(p[1], k - 1) # Null => \E j \in 1..Len(p[2]) : p[2][j].time = timestamps[k]

\* 35 aligned bars: the first 19 entries of the MA20 series and the first 25 of
\* the MACD series are omitted
C8_Witness ==
  /\ fn = "GET"
  /\ args.upstream.outcome = "ok"
  /\ ~Misaligned(locals)
  /\ Len(args.upstream.timestamps) = 35
  /\ Len(ret.body.chartData.ma20) = 16
  /\ ret.body.chartData.ma20[1].time = args.upstream.timestamps[20]
  /\ Len(ret.body.chartData.macd) = 10

\* C9: wherever calculateBollingerBands returns all three bands, for a
\* non-negative multiplier, upper >= middle >= lower.
C9_BandsOrdered ==
  fn = "calculateBollingerBands" =>
    \A k \in 1..Len(ret.middle) :
      IsNum(ret.upper[k]) /\ IsNum(ret.middle[k]) /\ IsNum(ret.lower[k])
        => Ge(ret.upper[k], ret.middle[k]) /\ Ge(ret.middle[k], ret.lower[k])

\* bands strictly apart around the midline
C9_Witness ==
  /\ fn = "calculateBollingerBands"
  /\ args.stdDev = Num(2)
  /\ \E k \in 1..Len(ret.middle) :
       /\ IsNum(ret.middle[k])
       /\ Gt(ret.upper[k], ret.middle[k])
       /\ Gt(ret.middle[k], ret.lower[k])

\* C10: the score of determineMarketSentiment lies in [0, 100] for every rsi,
\* macd and price deviation, the extreme ones included.
C10_ScoreClamped ==
  fn = "determineMarketSentiment" =>
    IsNum(ret.score) /\ Ge(ret.score, Num(0)) /\ Le(ret.score, Num(100))

\* MACD = 1000 with a deviation of +500 %: the sum of 565 or more is clamped to 100
C10_Witness ==
  /\ fn = "determineMarketSentiment"
  /\ args.macdValue = Num(1000)
  /\ args.priceVsMA20 = Num(500)
  /\ ret.score = Num(100)

\* a latest value that is absent: null during warm-up, undefined on an empty series
Absent(v) == v \in {Null, Undefined}

\* the value of an indicator array at the latest index
Latest(l, series) == At(series, l.lastIndex)

\* C11: every absent latest indicator value reaches the synthesizer and the
\* scorer as its neutral default: the current price for ma20, ma50 and the two
\* bands, 50 for the RSI, 0 for macd and its signal, and 0 for the deviation from
\* MA20 when ma20 is absent.
C11_AbsentGetsDefault ==
  fn = "GET" /\ args.upstream.outcome = "ok" =>
    LET l == locals
        in == locals.signalInput
    IN  /\ Absent(Latest(l, l.ma20)) => in.ma20 = l.currentPrice
        /\ Absent(Latest(l, l.ma50)) => in.ma50 = l.currentPrice
        /\ Absent(Latest(l, l.bollingerUpper)) => in.bollingerUpper = l.currentPrice
        /\ Absent(Latest(l, l.bollingerLower)) => in.bollingerLower = l.currentPrice
        /\ Absent(Latest(l, l.rsi)) => in.rsi = Num(50)
        /\ Absent(Latest(l, l.macd)) => in.macd = Num(0)
        /\ Absent(Latest(l, l.macdSignal)) => in.macdSignal = Num(0)
        /\ Absent(Latest(l, l.ma20)) => l.priceVsMA20Percent = Num(0)
        /\ ret.body.signal = calculateSignal(in)
        /\ ret.body.sentiment =
             determineMarketSentiment(in.rsi, in.macd, l.priceVsMA20Percent)

\* between 20 and 25 bars with a last close off the average: ma20 and the RSI are
\* passed on as they are, ma50 and the MACD are replaced
C11_Witness ==
  /\ fn = "GET"
  /\ args.upstream.outcome = "ok"
  /\ ~Absent(Latest(locals, locals.ma20))
  /\ locals.signalInput.ma20 = Latest(locals, locals.ma20)
  /\ locals.signalInput.ma20 # locals.currentPrice
  /\ Absent(Latest(locals, locals.ma50))
  /\ locals.signalInput.ma50 = locals.currentPrice
  /\ Absent(Latest(locals, locals.macd))
  /\ locals.signalInput.macd = Num(0)

\* a row of the sub-signal table: BUY adds 25, SELL nothing, NEUTRAL 12.5
TableRow(buy, sell) ==
  IF buy THEN [signal |-> "BUY", adds |-> Num(25)]
  ELSE IF sell THEN [signal |-> "SELL", adds |-> Num(0)]
  ELSE [signal |-> "NEUTRAL", adds |-> <<25, 2>>]

\* C12: calculateSignal follows the sub-signal table: MA crossover BUY iff
\* ma20 > ma50, else SELL; RSI BUY iff rsi < 30, SELL iff rsi > 70, else NEUTRAL;
\* MACD BUY iff macd > macdSignal, else SELL; Bollinger BUY iff price < lower
\* band, SELL iff price > upper band, else NEUTRAL; the confidence is the rounded
\* sum of the contributions 25 (BUY), 0 (SELL) and 12.5 (NEUTRAL).
C12_SubSignalTable ==
  fn = "calculateSignal" =>
    LET ma == TableRow(Gt(args.ma20, args.ma50), TRUE)
        rsi == TableRow(Lt(args.rsi, Num(30)), Gt(args.rsi, Num(70)))
        macd == TableRow(Gt(args.macd, args.macdSignal), TRUE)
        bollinger == TableRow(Lt(args.currentPrice, args.bollingerLower),
                              Gt(args.currentPrice, args.bollingerUpper))
    IN  /\ ret.signals.maCrossover.signal = ma.signal
        /\ ret.signals.rsi.signal = rsi.signal
        /\ ret.signals.macd.signal = macd.signal
        /\ ret.signals.bollinger.signal = bollinger.signal
        /\ ret.confidence =
             MathRound(Add(Add(ma.adds, rsi.adds), Add(macd.adds, bollinger.adds)))

\* equal averages, an RSI of exactly 30, the MACD above its signal and the price
\* on the lower band: SELL, NEUTRAL, BUY, NEUTRAL and a confidence of 50
C12_Witness ==
  /\ fn = "calculateSignal"
  /\ args.ma20 = args.ma50
  /\ args.rsi = Num(30)
  /\ Gt(args.macd, args.macdSignal)
  /\ args.currentPrice = args.bollingerLower
  /\ ret.signals.maCrossover.signal = "SELL"
  /\ ret.signals.rsi.signal = "NEUTRAL"
  /\ ret.signals.macd.signal = "BUY"
  /\ ret.signals.bollinger.signal = "NEUTRAL"
  /\ ret.confidence = Num(50)

\* the RSI adjustment of the sentiment score
RsiAdj(rsi) ==
  CASE Lt(rsi, Num(30)) -> Num(-15)
    [] ~Lt(rsi, Num(30)) /\ Lt(rsi, Num(40)) -> Num(-10)
    [] ~Lt(rsi, Num(40)) /\ Gt(rsi, Num(70)) -> Num(15)
    [] ~Lt(rsi, Num(40)) /\ ~Gt(rsi, Num(70)) /\ Gt(rsi, Num(60)) -> Num(10)
    [] OTHER -> Num(0)

\* the MACD adjustment: min(15, |macd| * 10), signed as the MACD, negative at 0
MacdAdj(macd) ==
  LET size == Mul(IF Lt(macd, Num(0)) THEN Neg(macd) ELSE macd, Num(10))
      capped == IF Gt(size, Num(15)) THEN Num(15) ELSE size
  IN  IF Gt(macd, Num(0)) THEN capped ELSE Neg(capped)

\* x limited to [0, 100]
Clamped(x) == IF Lt(x, Num(0)) THEN Num(0) ELSE IF Gt(x, Num(100)) THEN Num(100) ELSE x

C14_LabelBands ==
  fn = "determineMarketSentiment" =>
    /\ ret.sentiment = "Very Bullish" <=> Ge(ret.score, Num(80))
    /\ ret.sentiment = "Bullish" <=> Ge(ret.score, Num(60)) /\ Lt(ret.score, Num(80))
    /\ ret.sentiment = "Neutral" <=> Ge(ret.score, Num(40)) /\ Lt(ret.score, Num(60))
    /\ ret.sentiment = "Bearish" <=> Ge(ret.score, Num(20)) /\ Lt(ret.score, Num(40))
    /\ ret.sentiment = "Very Bearish" <=> Lt(ret.score, Num(20))

\* a score of exactly 80 is Very Bullish
C14_Witness ==
  /\ fn = "determineMarketSentiment"
  /\ ret.score = Num(80)
  /\ ret.sentiment = "Very Bullish"

\* the text of a message holds the part
Names(message, part) == \E k \in 1..Len(message) : message[k] = part

RECURSIVE Total(_)
\* the sum of the entries of s
Total(s) == IF s = <<>> THEN Num(0) ELSE Add(Head(s), Total(Tail(s)))

\* the arithmetic mean of the entries of s
Mean(s) == Div(Total(s), Num(Len(s)))

\* C17: calculateSMA returns at every index i >= period - 1 the arithmetic mean
\* of the period values data[i-period+1 .. i], and null at every index before.
C17_SmaIsWindowMean ==
  fn = "calculateSMA" =>
    \A k \in 1..Len(args.data) :
      IF k - 1 >= args.period - 1
      THEN ret[k] = Mean(SubSeq(args.data, k - args.period + 1, k))
      ELSE ret[k] = Null

\* a period of 3 on 5 bars whose windows have different means
C17_Witness ==
  /\ fn = "calculateSMA"
  /\ args.period = 3
  /\ Len(args.data) = 5
  /\ ret[2] = Null
  /\ IsNum(ret[3])
  /\ ret[3] # ret[4]
  /\ ret[4] # ret[5]

\* C18: calculateEMA is null before index period - 1, is the mean of the first
\* period values at index period - 1, and at every later index i is
\* (data[i] - EMA[i-1]) * 2 / (period + 1) + EMA[i-1]; so every index from
\* period - 1 on is defined and the seed is taken once.
C18_EmaRecurrence ==
  fn = "calculateEMA" =>
    \A k \in 1..Len(args.data) :
      LET i == k - 1
      IN  /\ i < args.period - 1 => ret[k] = Null
          /\ i = args.period - 1 => ret[k] = Mean(SubSeq(args.data, 1, args.period))
          /\ i > args.period - 1 =>
               /\ IsNum(ret[k - 1])
               /\ ret[k] = Add(Mul(Sub(args.data[k], ret[k - 1]),
                                   Div(Num(2), Num(args.period + 1))),
                               ret[k - 1])
          /\ i >= args.period - 1 => IsNum(ret[k])

\* a period of 2 on 5 bars: after the seed the EMA follows the recurrence and
\* is not the mean of the last two bars
C18_Witness ==
  /\ fn = "calculateEMA"
  /\ args.period = 2
  /\ Len(args.data) = 5
  /\ ret[1] = Null
  /\ ret[2] = Mean(SubSeq(args.data, 1, 2))
  /\ ret[5] # Mean(SubSeq(args.data, 4, 5))
  /\ ret[5] # Mean(SubSeq(args.data, 1, 2))

\* the sum of the rises (up = TRUE) or of the falls among the close-to-close
\* changes j = lo .. hi of a series, a change j being closes[j] - closes[j-1]
\* with the indices of the code
Moves(closes, lo, hi, up) ==
  Total([j \in 1..(hi - lo + 1) |->
           LET change == Sub(closes[lo + j], closes[lo + j - 1])
           IN  IF up THEN (IF Gt(change, Num(0)) THEN change ELSE Num(0))
               ELSE (IF Lt(change, Num(0)) THEN Neg(change) ELSE Num(0))])

\* the RSI of average gain g and average loss l
RsiOf(g, l) ==
  IF l = Num(0) THEN Num(100)
  ELSE Sub(Num(100), Div(Num(100), Add(Num(1), Div(g, l))))

\* C19: the array calculateRSI returns is null for i < period and, for each
\* i >= period, is the RSI of the window sums of the changes i-period+1 .. i
\* divided by period, whatever the values at other indices and whatever the
\* first loop of the function has put into its own array.
C19_RsiIsWindowed ==
  fn = "calculateRSI" =>
    \A k \in 1..Len(args.closes) :
      LET i == k - 1
      IN  IF i < args.period THEN ret[k] = Null
          ELSE ret[k] = RsiOf(Div(Moves(args.closes, i - args.period + 1, i, TRUE),
                                  Num(args.period)),
                              Div(Moves(args.closes, i - args.period + 1, i, FALSE),
                                  Num(args.period)))

\* a period of 2 on 5 bars: the array of the first loop differs from the
\* returned one at a defined index
C19_Witness ==
  /\ fn = "calculateRSI"
  /\ args.period = 2
  /\ Len(args.closes) = 5
  /\ ret[2] = Null
  /\ \E k \in 3..5 :
       /\ Gt(ret[k], Num(0)) /\ Lt(ret[k], Num(100))
       /\ IsNum(locals.result[k])
       /\ locals.result[k] # ret[k]

\* C20: macd[i] is EMA12[i] - EMA26[i] where both are defined and null elsewhere,
\* so it is defined exactly for i >= 25; histogram[i] is macd[i] - signal[i]
\* where both are defined and null where either is null.
C20_MacdAndHistogram ==
  fn = "calculateMACD" =>
    LET ema12 == calculateEMA(args.closes, 12)
        ema26 == calculateEMA(args.closes, 26)
    IN  \A k \in 1..Len(args.closes) :
          /\ IF ema12[k] # Null /\ ema26[k] # Null
             THEN ret.macd[k] = Sub(ema12[k], ema26[k])
             ELSE ret.macd[k] = Null
          /\ ret.macd[k] # Null <=> k - 1 >= 25
          /\ IF ret.macd[k] # Null /\ ret.signal[k] # Null
             THEN ret.histogram[k] = Sub(ret.macd[k], ret.signal[k])
             ELSE ret.histogram[k] = Null

\* 36 bars of which the last leaves the run: the MACD is defined from index 25
\* on, the histogram is null at index 33, where the signal is null, and defined
\* and not 0 at index 35
C20_Witness ==
  /\ fn = "calculateMACD"
  /\ Len(args.closes) = 36
  /\ ret.macd[25] = Null
  /\ ret.macd[26] # Null
  /\ ret.signal[34] = Null
  /\ ret.histogram[34] = Null
  /\ IsNum(ret.signal[36])
  /\ IsNum(ret.histogram[36])
  /\ ret.histogram[36] # Num(0)

\* the closes of the last `period` bars are all c, and there are that many
FlatTail(closes, period, c) ==
  /\ Len(closes) >= period
  /\ \A j \in (Len(closes) - period + 1)..Len(closes) : closes[j] = c

ExactMultiples(c, period) == \A j \in 1..period : Fl(Mul(Num(j), c)) = Mul(Num(j), c)

Extrema(s, down) ==
  {i \in 0..(Len(s) - 1) :
     /\ 2 <= i /\ i <= Len(s) - 3
     /\ \A j \in {i - 2, i - 1, i + 1, i + 2} :
          IF down THEN s[i + 1][1] * s[j + 1][2] < s[j + 1][1] * s[i + 1][2]
          ELSE s[i + 1][1] * s[j + 1][2] > s[j + 1][1] * s[i + 1][2]}

\* the entries of s at the indices of I, by increasing index
RECURSIVE Picked(_, _)
Picked(s, I) ==
  IF I = {} THEN <<>>
  ELSE LET last == CHOOSE i \in I : \A j \in I : j <= i
       IN  Append(Picked(s, I \ {last}), s[last + 1])

\* C21: the pivot loop pushes to support exactly the lows at the indices i with
\* 2 <= i <= n - 3 that are strictly below their four neighbours, and to
\* resistance exactly the highs at such indices strictly above their four
\* neighbours, in index order, so an entry tying with a neighbour is never
\* pushed; when index 5 is the only such low, the reported support is that low
C21_PivotCandidates ==
  fn = "findSupportResistance" =>
    /\ locals.support = Picked(args.lows, Extrema(args.lows, TRUE))
    /\ locals.resistance = Picked(args.highs, Extrema(args.highs, FALSE))
    /\ Extrema(args.lows, TRUE) = {5} => ret.support = <<args.lows[6]>>

\* a series whose only clean local minimum is at index 5, with a tie elsewhere
\* that is not reported
C21_Witness ==
  /\ fn = "findSupportResistance"
  /\ Extrema(args.lows, TRUE) = {5}
  /\ args.lows[3] = args.lows[2]
  /\ ret.support = <<args.lows[6]>>
  /\ locals.resistance # <<>>

\* the (at most) n largest members of the index set I
RECURSIVE Largest(_, _)
Largest(I, n) ==
  IF n = 0 \/ I = {} THEN {}
  ELSE LET last == CHOOSE i \in I : \A j \in I : j <= i
       IN  {last} \cup Largest(I \ {last}, n - 1)

\* s and t hold the same values, each as many times
SameEntries(s, t) ==
  /\ Len(s) = Len(t)
  /\ \A k \in DOMAIN s :
       Cardinality({j \in DOMAIN s : s[j] = s[k]})
         = Cardinality({j \in DOMAIN t : t[j] = s[k]})

\* C22: when candidates of a kind exist, the returned list holds exactly the
\* values of the up to 3 candidates with the largest indices, supports in
\* non-increasing and resistances in non-decreasing order, so each list has
\* between 1 and 3 entries
C22_RecentThreeSorted ==
  fn = "findSupportResistance" =>
    /\ Extrema(args.lows, TRUE) # {} =>
         /\ SameEntries(ret.support,
                        Picked(args.lows, Largest(Extrema(args.lows, TRUE), 3)))
         /\ \A k \in 1..(Len(ret.support) - 1) :
              Ge(ret.support[k], ret.support[k + 1])
         /\ Len(ret.support) \in 1..3
    /\ Extrema(args.highs, FALSE) # {} =>
         /\ SameEntries(ret.resistance,
                        Picked(args.highs, Largest(Extrema(args.highs, FALSE), 3)))
         /\ \A k \in 1..(Len(ret.resistance) - 1) :
              Le(ret.resistance[k], ret.resistance[k + 1])
         /\ Len(ret.resistance) \in 1..3

\* four support candidates of which the oldest, lower than the newest, is
\* dropped, the three kept ones found in rising order and returned in falling
\* order
C22_Witness ==
  /\ fn = "findSupportResistance"
  /\ Len(locals.support) = 4
  /\ Lt(locals.support[1], locals.support[4])
  /\ Lt(locals.support[2], locals.support[3])
  /\ ret.support = <<locals.support[4], locals.support[3], locals.support[2]>>
  /\ Len(ret.resistance) = 3
  /\ Lt(ret.resistance[1], ret.resistance[3])

\* C23 as stated: without a support candidate, which is the case of every
\* series of fewer than 5 points, the support is the one-element list holding
\* the last low of the series, and without a resistance candidate the
\* resistance is the one-element list holding the last high
C23_FallbackIsLastBar ==
  fn = "findSupportResistance" =>
    /\ Len(args.lows) < 5 => Extrema(args.lows, TRUE) = {}
    /\ Extrema(args.lows, TRUE) = {} =>
         /\ Len(args.lows) > 0
         /\ ret.support = <<args.lows[Len(args.lows)]>>
    /\ Extrema(args.highs, FALSE) = {} =>
         /\ Len(args.highs) > 0
         /\ ret.resistance = <<args.highs[Len(args.highs)]>>

\* C23, amended: the same for every series that has a bar; for the series
\* without bars each list holds the one element undefined
C23_FallbackIsLastBarIfAny ==
  fn = "findSupportResistance" =>
    /\ Len(args.lows) < 5 => Extrema(args.lows, TRUE) = {}
    /\ Extrema(args.lows, TRUE) = {} =>
         ret.support = IF Len(args.lows) > 0 THEN <<args.lows[Len(args.lows)]>>
                       ELSE <<Undefined>>
    /\ Extrema(args.highs, FALSE) = {} =>
         ret.resistance = IF Len(args.highs) > 0 THEN <<args.highs[Len(args.highs)]>>
                          ELSE <<Undefined>>

\* a series with a support candidate and no resistance candidate: the
\* resistance falls back to the last high, which is not the first, while the
\* support does not fall back
C23_Witness ==
  /\ fn = "findSupportResistance"
  /\ Extrema(args.lows, TRUE) # {}
  /\ Extrema(args.highs, FALSE) = {}
  /\ ret.resistance = <<args.highs[Len(args.highs)]>>
  /\ args.highs[Len(args.highs)] # args.highs[1]
  /\ ret.support = locals.support

(***************************************************************************)
(* The latest RSI in the handler.                                          *)
(***************************************************************************)
\* C24: whenever the latest RSI is a number, the synthesizer and the scorer
\* receive that number, 0 included: an RSI of 0 gives the RSI sub-signal BUY and
\* the sentiment adjustment of -15; 50 stands in only for an absent RSI
C24_DefinedRsiIsPassed ==
  fn = "GET" /\ args.upstream.outcome = "ok" =>
    LET l == locals
        latestRsi == Latest(locals, locals.rsi)
    IN  /\ Absent(latestRsi) => l.signalInput.rsi = Num(50)
        /\ IsNum(latestRsi) =>
             /\ l.signalInput.rsi = latestRsi
             /\ ret.body.sentiment =
                  determineMarketSentiment(latestRsi, l.signalInput.macd,
                                           l.priceVsMA20Percent)
        /\ latestRsi = Num(0) => ret.body.signal.signals.rsi.signal = "BUY"

(***************************************************************************)
(* The latest values of the result bundle.                                 *)
(***************************************************************************)
\* C25: for a reply with at least one close, currentPrice is the last close,
\* previousClose the one before it (the last close itself when there is only
\* one), change their difference, and changePercent the change as a percentage
\* of previousClose when previousClose > 0 and 0 otherwise: always a number,
\* and 0 with change 0 for a single close
C25_LatestValues ==
  fn = "GET" /\ args.upstream.outcome = "ok" /\ Len(locals.closes) >= 1 =>
    LET closes == locals.closes
        n == Len(closes)
        b == ret.body
    IN  /\ b.currentPrice = closes[n]
        /\ b.previousClose = IF n > 1 THEN closes[n - 1] ELSE closes[n]
        /\ IsNum(b.change)
        /\ Add(b.previousClose, b.change) = b.currentPrice
        /\ IsNum(b.changePercent)
        /\ IF b.previousClose[1] > 0
           THEN Mul(b.changePercent, b.previousClose) = Mul(b.change, Num(100))
           ELSE b.changePercent = Num(0)
        /\ n = 1 => b.change = Num(0) /\ b.changePercent = Num(0)

\* a fall to a last close from a previous close of 0: the percentage is 0
\* although the change is not
C25_Witness ==
  /\ fn = "GET"
  /\ args.upstream.outcome = "ok"
  /\ Len(locals.closes) = 3
  /\ ret.body.previousClose = Num(0)
  /\ ret.body.currentPrice = Num(2)
  /\ ret.body.change = Num(2)
  /\ ret.body.changePercent = Num(0)

(***************************************************************************)
(* The dashboard's fetches.                                                *)
(***************************************************************************)
\* a fetch of fetchStockData has been started and has not settled
StockFetchPending == \E request \in BagToSet(pending) : request.kind = "stock"

\* C26: whenever no stock fetch is pending and the stock fetch that settled last
\* succeeded, the stock data shown is the data of the selected stock
C26_DataOfSelection ==
  mounted /\ ~StockFetchPending /\ lastFetch = "ok" =>
    stockData # None /\ stockData[1].symbol = selectedStock

\* C27: loading is true whenever a stock fetch is pending
C27_LoadingWhilePending == StockFetchPending => loading

(***************************************************************************)
(* The dashboard's watchlist.                                              *)
(***************************************************************************)
\* the symbol is on the list
Watched(list, symbol) == symbol \in Range(list)

\* C28: every toggle of a symbol, by the Watch button, a remove button or the
\* key +, flips whether that symbol is on the displayed watchlist, leaves every
\* other symbol as it was, and stores the displayed watchlist; two toggles of
\* one symbol in a row therefore restore the watchlist
C28_ToggleFlipsMembership ==
  [][KeyPlus \/ WatchButton \/ RemoveButton =>
       LET symbol == lastToast'[1].description[1]
       IN  /\ Watched(watchlist', symbol) # Watched(watchlist, symbol)
           /\ \A other \in StockList \ {symbol} :
                Watched(watchlist', other) = Watched(watchlist, other)
           /\ storage' # None
           /\ JSONParse(storage'[1]) = watchlist']_vars

(***************************************************************************)
(* The dashboard's refresh countdown.                                      *)
(***************************************************************************)
\* the fetches started by a step
Started(request) == CopiesIn(request, pending') - CopiesIn(request, pending)

\* C29: refreshCountdown stays within 1..60 and is 60 less the ticks since it
\* was last set to 60, so the tick that refreshes is at most the 60th; a tick
\* at a value above 1 takes 1 off and starts nothing, a tick at 1 or below
\* starts one fetch of the selected stock, one of the compare stock exactly in
\* compare mode with a compare stock chosen, and sets it to 60; the refresh
\* button and the key R set it to 60 as well
C29_CountdownCycle ==
  /\ [](/\ refreshCountdown \in 1..60
        /\ sinceReset = 60 - refreshCountdown)
  /\ [][Tick =>
          IF refreshCountdown > 1
          THEN refreshCountdown' = refreshCountdown - 1 /\ pending' = pending
          ELSE /\ refreshCountdown' = 60
               /\ Started(StockRequest(selectedStock)) = 1
               /\ \A symbol \in StockList :
                    Started(CompareRequest(symbol))
                      = IF compareMode /\ symbol = compareStock THEN 1 ELSE 0
               /\ \A symbol \in StockList \ {selectedStock} :
                    Started(StockRequest(symbol)) = 0]_vars
  /\ [][RefreshButton \/ KeyRefresh =>
          refreshCountdown' = 60 /\ sinceReset' = 0]_vars

\* 59 ticks after the countdown was set, in compare mode with a compare stock
\* chosen and no fetch pending: the next tick is the one that refreshes
C29_Witness ==
  /\ mounted
  /\ refreshCountdown = 1
  /\ sinceReset = 59
  /\ compareMode
  /\ compareStock # ""
  /\ pending = EmptyBag

(***************************************************************************)
(* The dashboard's failed fetches.                                         *)
(***************************************************************************)
\* C30: when a stock fetch fails, by rejection or by a status that is not ok,
\* the stock data stays as it was, loading is cleared and the toast raised is
\* the error toast that names the symbol of the fetch; when a compare fetch
\* fails, the compare data stays as it was
C30_FailureKeepsData ==
  /\ [][StockFails =>
          /\ stockData' = stockData
          /\ ~loading'
          /\ lastToast' # None
          /\ lastToast'[1].title = "Error"
          /\ \E symbol \in StockList :
               /\ Started(StockRequest(symbol)) = -1
               /\ symbol \in Range(lastToast'[1].description)]_vars
  /\ [][CompareFails => compareData' = compareData]_vars

\* the stock fetch that settled last got a status that is not ok: the data of
\* an earlier fetch is still shown, loading is off and the toast names the
\* symbol, while a compare fetch is still pending
C30_Witness ==
  /\ lastFetch = "notOk"
  /\ stockData = Some(DataOf("TCS.NS"))
  /\ ~loading
  /\ lastToast = Some(ErrorToast("RELIANCE.NS"))
  /\ compareData # None
  /\ \E request \in BagToSet(pending) : request.kind = "compare"
====
